---------------------------- MODULE Spec2Model ----------------------------
(* Innullifiability: Set Records (lib/setRec.c), Set Expansion            *)
(* (lib/expand.c) and the Generation utility (util/generation.c).         *)
(* Sets are sequences of positive integers in strictly ascending order;   *)
(* C arrays are 0-based, sequences here are 1-based, so C's set[i] is     *)
(* set[i + 1] below.                                                      *)
EXTENDS Integers, Sequences, FiniteSets, TLC

\* ------------------------------------------------------------------ bounds
\* largest full set size of a record under test
MaxSize == 3
\* largest value a set may hold in the record specifications
MaxVal == 4
\* number of low bits of a byte the masks range over
MaskBits == 2
\* calls issued on one record in the sequential record specification
MaxCalls == 2
\* largest number of concurrent query calls / worker threads
MaxThreads == 3
\* marks made on a record that is being filled
MaxMarks == 3
\* largest value of the sets handed to expand(), and largest maximum
ExpandMax == 8
\* the index functions: largest index and largest advance
MaxIndex == 24
MaxAdd == 4
\* the exhaustive test: largest number of values and largest value
NulSize == 4
NulMax == 9
\* successive generations: largest value and size of the last destination
ChainMax == 8
ChainSize == 4
\* marks made on a record before it is exported
FileMarks == 2
\* largest value in the header of an exported record
FileMax == 12
\* calls issued on a record that is allocated again
AllocCalls == 3
\* end to end: the sets of 4 values up to 9 of the header of main.c
EndSize == 4
EndMax == 9
\* weed: largest value of the record's sets
WeedMax == 6
\* whole generation passes: largest value of the source's sets
PassMax == 8

\* ------------------------------------------------------------ bit-fields
RECURSIVE BitAnd(_, _)
BitAnd(a, b) ==
    IF a = 0 \/ b = 0 THEN 0
    ELSE (a % 2) * (b % 2) + 2 * BitAnd(a \div 2, b \div 2)

RECURSIVE BitOr(_, _)
BitOr(a, b) ==
    IF a = 0 THEN b
    ELSE IF b = 0 THEN a
    ELSE (IF a % 2 = 1 \/ b % 2 = 1 THEN 1 ELSE 0)
            + 2 * BitOr(a \div 2, b \div 2)

Masks == 0 .. (2 ^ MaskBits - 1)

\* iface.h bit assignments
NULLIF == 1
ONLY_SUP == 2
MARKED == BitOr(NULLIF, ONLY_SUP)

\* ------------------------------------------- unsigned long long arithmetic
\* A 64-bit word is kept as three limbs <<low, mid, high>> of 22, 22 and 20
\* bits, so that products and quotients wrap exactly as the machine word.
LimbBase == 2 ^ 22
TopBase == 2 ^ 20

U64(n) == <<n % LimbBase, (n \div LimbBase) % LimbBase, 0>>

U64IsSmall(a) == a[2] = 0 /\ a[3] = 0

\* a * s modulo 2^64, for a small multiplier s
U64Mul(a, s) ==
    LET p0 == a[1] * s
        p1 == a[2] * s + (p0 \div LimbBase)
        p2 == a[3] * s + (p1 \div LimbBase)
    IN  <<p0 % LimbBase, p1 % LimbBase, p2 % TopBase>>

\* comparison and subtraction on (up to 65-bit) limb triples
U64Geq(a, b) ==
    IF a[3] # b[3] THEN a[3] > b[3]
    ELSE IF a[2] # b[2] THEN a[2] > b[2]
    ELSE a[1] >= b[1]

U64Sub(a, b) ==
    LET d0 == a[1] - b[1]
        w0 == IF d0 < 0 THEN 1 ELSE 0
        d1 == a[2] - b[2] - w0
        w1 == IF d1 < 0 THEN 1 ELSE 0
    IN  <<d0 + w0 * LimbBase, d1 + w1 * LimbBase, a[3] - b[3] - w1>>

\* 2 * r (up to 65 bits) plus a bit
U64Shl1(r, bit) ==
    LET p0 == 2 * r[1] + bit
        p1 == 2 * r[2] + (p0 \div LimbBase)
    IN  <<p0 % LimbBase, p1 % LimbBase, 2 * r[3] + (p1 \div LimbBase)>>

\* quotient and remainder <<q, r>> of a by b > 0, from those by 2 * b
RECURSIVE U64DivMod(_, _)
U64DivMod(a, b) ==
    IF ~U64Geq(a, b) THEN <<0, a>>
    ELSE LET h == U64DivMod(a, U64Shl1(b, 0))
         IN  IF U64Geq(h[2], b) THEN <<2 * h[1] + 1, U64Sub(h[2], b)>>
             ELSE <<2 * h[1], h[2]>>

U64Div(a, b) ==
    IF U64IsSmall(a) /\ U64IsSmall(b) THEN a[1] \div b[1]
    ELSE U64DivMod(a, b)[1]

\* ------------------------------------------------------------ M choose N
RECURSIVE mcnLoop(_, _, _, _, _)
mcnLoop(m, n, i, total, perms) ==
    IF i < n
    THEN mcnLoop(m, n, i + 1, U64Mul(total, m - i), U64Mul(perms, i + 1))
    ELSE IF perms = <<0, 0, 0>> THEN 0
    ELSE U64Div(total, perms)

mcn(m, n) ==
    IF m < n THEN 0 ELSE mcnLoop(m, n, 0, U64(1), U64(1))


\* a C array of n cells holding zeros (calloc)
RECURSIVE Zeros(_)
Zeros(n) ==
    IF n <= 0 THEN << >>
    ELSE LET h == Zeros(n \div 2)
         IN  IF n % 2 = 0 THEN h \o h ELSE Append(h \o h, 0)

\* -------------------------------------------------------- combinadic index
\* setToIndex: sum of mcn(set[vals - 1] - 1, vals) for vals = varSize .. 1
RECURSIVE setToIndexLoop(_, _, _)
setToIndexLoop(set, vals, index) ==
    IF vals > 0
    THEN setToIndexLoop(set, vals - 1, index + mcn(set[vals] - 1, vals))
    ELSE index

\* an index made of the highest value only
setToIndex_highest(set, varSize) == mcn(set[varSize] - 1, varSize)

setToIndex(set, varSize) == setToIndexLoop(set, varSize, 0)

\* the inner search of indexToSet: first i from vals - 1 with
\* mcn(i, vals) > index
RECURSIVE indexToSetFind(_, _, _)
indexToSetFind(i, vals, index) ==
    IF mcn(i, vals) <= index THEN indexToSetFind(i + 1, vals, index) ELSE i

RECURSIVE indexToSetLoop(_, _, _)
indexToSetLoop(set, vals, index) ==
    IF vals > 0
    THEN LET i == indexToSetFind(vals - 1, vals, index) - 1
         IN  indexToSetLoop([set EXCEPT ![vals] = i + 1], vals - 1,
                            index - mcn(i, vals))
    ELSE set

\* indexToSet writes set[0 .. varSize - 1] of the array it is handed
indexToSetInto(set, varSize, index) == indexToSetLoop(set, varSize, index)

indexToSet(varSize, index) ==
    indexToSetInto(Zeros(varSize), varSize, index)

\* the cascading for-loop of incSetValues (C index i, entered at 1)
RECURSIVE incCascade(_, _, _)
incCascade(set, varSize, i) ==
    IF i < varSize
    THEN LET s1 == [set EXCEPT ![i] = i]
             s2 == [s1 EXCEPT ![i + 1] = @ + 1]
         IN  IF i = varSize - 1 THEN incCascade(s2, varSize, i + 1)
             ELSE IF s2[i + 1] < s2[i + 2] THEN s2
             ELSE incCascade(s2, varSize, i + 1)
    ELSE set

RECURSIVE incWhile(_, _, _)
incWhile(set, varSize, add) ==
    IF add > 0
    THEN LET avail == set[2] - set[1] - 1
         IN  IF add <= avail THEN [set EXCEPT ![1] = @ + add]
             ELSE incWhile(incCascade(set, varSize, 1), varSize,
                           add - (avail + 1))
    ELSE set

incSetValues(set, varSize, add) ==
    IF varSize = 0 THEN set
    ELSE IF varSize = 1 THEN [set EXCEPT ![1] = @ + add]
    ELSE incWhile(set, varSize, add)


\* ------------------------------------------------------------ set records
FIXED_MAX == 4
EINVAL == 22

\* struct Base; rec is the byte array, isNull tells a NULL array pointer
Base(rec, isNull, size, varSize, minm, maxm, fixedSize, fixedv) ==
    [rec |-> rec, isNull |-> isNull, size |-> size, varSize |-> varSize,
     mval_min |-> minm, mval_max |-> maxm,
     fixedSize |-> fixedSize, fixedv |-> fixedv]

\* sr_initialize: the structure of an empty record; fixedv is not written
\* by the code, junk is what malloc left there
sr_initialize(size, junk) ==
    Base(<< >>, TRUE, size, size, 1, 0, 0, <<junk, junk, junk, junk>>)

TOTAL(minm, maxm, varSize) == mcn(maxm, varSize) - mcn(minm - 1, varSize)

TOTAL_B(base) == TOTAL(base.mval_min, base.mval_max, base.varSize)

sr_getTotal(base) == TOTAL_B(base)

\* the values sr_alloc works with after adjusting its inputs
allocMinM(varSize, minm) == IF minm < varSize THEN varSize ELSE minm

allocMaxM(varSize, minm, maxm) ==
    LET mn == allocMinM(varSize, minm)
    IN  IF maxm < mn THEN mn - 1 ELSE maxm

\* the validation of sr_alloc: TRUE when it returns -1 with EINVAL
allocInvalid(base, varSize, minm, maxm, fixedv) ==
    LET fixedSize == Len(fixedv)
        mx == allocMaxM(varSize, minm, maxm)
    IN  \/ fixedSize > FIXED_MAX
        \/ varSize + fixedSize # base.size
        \/ fixedSize > 0 /\ fixedv[1] <= mx
        \/ \E i \in 2 .. fixedSize : fixedv[i] <= fixedv[i - 1]

\* sr_alloc; callocOk tells whether calloc returned an array.
\* Result: the return value and the structure afterwards.
sr_alloc(base, varSize, minm, maxm, fixedv, callocOk) ==
    LET fixedSize == Len(fixedv)
        mn == allocMinM(varSize, minm)
        mx == allocMaxM(varSize, minm, maxm)
    IN  IF allocInvalid(base, varSize, minm, maxm, fixedv)
        THEN [ret |-> -1, errno |-> EINVAL, base |-> base]
        ELSE LET populated ==
                    [base EXCEPT !.varSize = varSize,
                                 !.mval_min = mn,
                                 !.mval_max = mx,
                                 !.fixedSize = fixedSize,
                                 !.fixedv = fixedv \o
                                     SubSeq(base.fixedv, fixedSize + 1,
                                            FIXED_MAX)]
             IN  IF ~callocOk
                 THEN [ret |-> -1, errno |-> 0, base |-> populated]
                 ELSE [ret |-> 0, errno |-> 0,
                       base |-> [populated EXCEPT
                           !.rec = Zeros(TOTAL_B(populated)),
                           !.isNull = FALSE]]

\* a plain store of the mask in the place of the OR
atomic_fetch_or_store(rec, index, mask) ==
    [rec EXCEPT ![index + 1] = mask]

\* an exclusive OR in place of the OR
atomic_fetch_or_xor(rec, index, mask) ==
    [rec EXCEPT ![index + 1] = BitOr(@, mask) - BitAnd(@, mask)]

\* atomic_fetch_or on rec + index (C index, 0-based)
atomic_fetch_or(rec, index, mask) ==
    [rec EXCEPT ![index + 1] = BitOr(@, mask)]

\* the array offset mark() computes for a set
markIndex(minm, set, varSize) ==
    setToIndex(set, varSize) - mcn(minm - 1, varSize)

\* a return of 1 only when every bit of the mask was clear
mark_allClear(rec, minm, set, varSize, mask) ==
    LET index == markIndex(minm, set, varSize)
        prev == rec[index + 1]
    IN  [ret |-> IF BitAnd(prev, mask) = 0 THEN 1 ELSE 0,
         rec |-> atomic_fetch_or(rec, index, mask)]

\* mark(): the OR and whether new bits were set
mark(rec, minm, set, varSize, mask) ==
    LET index == markIndex(minm, set, varSize)
        prev == rec[index + 1]
    IN  [ret |-> IF BitAnd(prev, mask) # mask THEN 1 ELSE 0,
         rec |-> atomic_fetch_or(rec, index, mask)]

\* a validation that lets equal neighbours pass
markInvalid_equal(base, set) ==
    \/ Len(set) # base.size
    \/ set[1] < 1
    \/ \E i \in 2 .. Len(set) : set[i] < set[i - 1]

\* the input validation of sr_mark: TRUE when it returns -1
markInvalid(base, set) ==
    \/ Len(set) # base.size
    \/ set[1] < 1
    \/ \E i \in 2 .. Len(set) : set[i] <= set[i - 1]

\* the two skips of sr_mark: TRUE when it returns 0 without marking
markSkipped(base, set) ==
    \/ set[base.varSize] > base.mval_max
    \/ set[base.varSize] < base.mval_min
    \/ \E i \in 1 .. base.fixedSize :
            set[base.varSize + i] # base.fixedv[i]

sr_mark(base, set, mask) ==
    IF markInvalid(base, set) THEN [ret |-> -1, base |-> base]
    ELSE IF markSkipped(base, set) THEN [ret |-> 0, base |-> base]
    ELSE LET res == mark(base.rec, base.mval_min, set, base.varSize, mask)
         IN  [ret |-> res.ret, base |-> [base EXCEPT !.rec = res.rec]]

\* criteria that compare with every bit of bits
match_allBits(cur, mask, bits) ==
    IF mask # 0 THEN BitAnd(cur, mask) = bits
    ELSE BitAnd(cur, bits) # 0 \/ bits = 0

\* query(): the bit-field criteria
match(cur, mask, bits) ==
    IF mask # 0 THEN BitAnd(cur, mask) = BitAnd(bits, mask)
    ELSE BitAnd(cur, bits) # 0 \/ bits = 0

\* a value array that is not advanced to the offset
queryFirst_noOffset(minm, varSize, fixedv, fixedSize, offset) ==
    LET size == varSize + fixedSize
        v0 == indexToSetInto(Zeros(size), varSize - 1, 0)
    IN  SubSeq(v0, 1, varSize - 1) \o <<minm>>
            \o SubSeq(fixedv, 1, fixedSize)

\* query(): the value array before the loop, advanced to the offset
queryFirst(minm, varSize, fixedv, fixedSize, offset) ==
    LET size == varSize + fixedSize
        v0 == indexToSetInto(Zeros(size), varSize - 1, 0)
        v1 == SubSeq(v0, 1, varSize - 1) \o <<minm>>
                  \o SubSeq(fixedv, 1, fixedSize)
    IN  incSetValues(v1, size, offset)

\* query(): the loop from index i on; st carries the count, the calls of
\* the output function and the indices read so far
RECURSIVE queryLoop(_, _, _, _, _, _, _, _, _, _)
queryLoop(rec, total, varSize, i, skip, values, mask, bits, hasOut, st) ==
    IF i < total
    THEN LET cur == rec[i + 1]
             m == match(cur, mask, bits)
             st2 == [setc |-> IF m THEN st.setc + 1 ELSE st.setc,
                     outs |-> IF m /\ hasOut
                              THEN Append(st.outs, <<values, cur>>)
                              ELSE st.outs,
                     read |-> Append(st.read, i)]
         IN  queryLoop(rec, total, varSize, i + skip, skip,
                       incSetValues(values, varSize, skip),
                       mask, bits, hasOut, st2)
    ELSE st

query(rec, minm, maxm, varSize, fixedv, fixedSize, offset, skip, mask, bits, hasOut) ==
    LET st == queryLoop(rec, TOTAL(minm, maxm, varSize), varSize,
                        offset, skip,
                        queryFirst(minm, varSize, fixedv, fixedSize, offset),
                        mask, bits, hasOut,
                        [setc |-> 0, outs |-> << >>, read |-> << >>])
    IN  [ret |-> st.setc, outs |-> st.outs, read |-> st.read]

\* a scan that leaves out the first set
sr_query_fromOne(base, mask, bits, hasOut) ==
    query(base.rec, base.mval_min, base.mval_max, base.varSize,
          base.fixedv, base.fixedSize, 1, 1, mask, bits, hasOut)

sr_query(base, mask, bits, hasOut) ==
    query(base.rec, base.mval_min, base.mval_max, base.varSize,
          base.fixedv, base.fixedSize, 0, 1, mask, bits, hasOut)

sr_query_parallel(base, mask, bits, concurrents, mod, hasOut) ==
    IF mod >= concurrents
    THEN [ret |-> -1, outs |-> << >>, read |-> << >>]
    ELSE query(base.rec, base.mval_min, base.mval_max, base.varSize,
               base.fixedv, base.fixedSize, mod, concurrents,
               mask, bits, hasOut)


\* ---------------------------------------------------------- set expansion
EXPAND_SUPERS == 1
EXPAND_MUT_ADD == 2
EXPAND_MUT_MUL == 4

\* eSet with the input copied behind one free cell: eSet[i + 1] = set[i]
shiftIn(eSet, set) == <<eSet[1]>> \o set

\* supers(): the insertion loop from value i on
RECURSIVE supersLoop(_, _, _, _, _, _)
supersLoop(super, size, pos, i, maxM, outs) ==
    IF i <= maxM
    THEN LET s1 == [super EXCEPT ![pos + 1] = i]
             skip == pos < size /\ s1[pos + 2] = i
         IN  supersLoop(s1, size, IF skip THEN pos + 1 ELSE pos, i + 1, maxM,
                        IF skip THEN outs ELSE Append(outs, s1))
    ELSE outs

\* insertions from 1 on whatever the M-range
supers_fromOne(set, size, minM, maxM) ==
    supersLoop(<<0>> \o set, size, 0, 1, maxM, << >>)

supers(set, size, minM, maxM) ==
    LET belowMRange == set[size] < minM
        super == IF ~belowMRange THEN <<0>> \o set ELSE Append(set, 0)
    IN  supersLoop(super, size, IF ~belowMRange THEN 0 ELSE size,
                   IF ~belowMRange THEN 1 ELSE minM, maxM, << >>)

\* mutateOpSum(): the loop from main insertion value insValMain on;
\* mutPt, insPtMain and insPtFollower are C indices into eSet
RECURSIVE opSumLoop(_, _, _, _, _, _, _, _, _)
opSumLoop(eSet, eSize, mutVal, insValMain, insPtMain, insPtFollower, minMajor, maxMajor, outs) ==
    IF insValMain <= (mutVal - 1) \div 2
    THEN LET insValFollower == mutVal - insValMain
             e1 == [eSet EXCEPT ![insPtMain + 1] = insValMain]
             e2 == [e1 EXCEPT ![insPtFollower + 1] = insValFollower]
             skipM == insPtMain < eSize - 1 /\ e2[insPtMain + 2] = insValMain
             skipF == insPtFollower > 0 /\ e2[insPtFollower] = insValFollower
             skip == skipM \/ skipF \/ insValFollower > maxMajor
         IN  IF insValFollower <= maxMajor /\ insValFollower < minMajor
             THEN outs
             ELSE opSumLoop(e2, eSize, mutVal, insValMain + 1,
                      IF skipM THEN insPtMain + 1 ELSE insPtMain,
                      IF skipF THEN insPtFollower - 1 ELSE insPtFollower,
                      minMajor, maxMajor,
                      IF skip THEN outs ELSE Append(outs, e2))
    ELSE outs

mutateOpSum(eSet, eSize, mutPt, minMajor, maxMajor) ==
    opSumLoop(eSet, eSize, eSet[mutPt + 1], 1, 0, mutPt,
              minMajor, maxMajor, << >>)

\* mutateOpDiff(): the loop from main insertion value insValMain on
RECURSIVE opDiffLoop(_, _, _, _, _, _, _, _, _)
opDiffLoop(eSet, eSize, mutVal, insValMain, insPtMain, insPtFollower, minMinu, maxMinu, outs) ==
    IF insValMain <= maxMinu - mutVal
    THEN LET insValFollower == mutVal + insValMain
             e1 == [eSet EXCEPT ![insPtMain + 1] = insValMain]
             e2 == [e1 EXCEPT ![insPtFollower + 1] = insValFollower]
             skipM == insPtMain < eSize - 1 /\ e2[insPtMain + 2] = insValMain
             skipF == insPtFollower < eSize - 1
                        /\ e2[insPtFollower + 2] = insValFollower
             skip == skipM \/ skipF \/ insValFollower < minMinu
         IN  opDiffLoop(e2, eSize, mutVal, insValMain + 1,
                      IF skipM THEN insPtMain + 1 ELSE insPtMain,
                      IF skipF THEN insPtFollower + 1 ELSE insPtFollower,
                      minMinu, maxMinu,
                      IF skip THEN outs ELSE Append(outs, e2))
    ELSE outs

\* minuends up to one more than maxMinu
mutateOpDiff_pastMax(eSet, eSize, mutPt, minMinu, maxMinu) ==
    opDiffLoop(eSet, eSize, eSet[mutPt + 1], 1, 0, mutPt,
               minMinu, maxMinu + 1, << >>)

\* pairs whose difference is one more than the value they replace
mutateOpDiff_plusOne(eSet, eSize, mutPt, minMinu, maxMinu) ==
    opDiffLoop(eSet, eSize, eSet[mutPt + 1] + 1, 1, 0, mutPt,
               minMinu, maxMinu, << >>)

mutateOpDiff(eSet, eSize, mutPt, minMinu, maxMinu) ==
    opDiffLoop(eSet, eSize, eSet[mutPt + 1], 1, 0, mutPt,
               minMinu, maxMinu, << >>)

\* mutateAdd(): sums then differences for each element from mutPt on
RECURSIVE mutateAddLoop(_, _, _, _, _)
mutateAddLoop(set, size, max, mutPt, outs) ==
    IF mutPt < size
    THEN LET eSet == shiftIn(Zeros(size + 1), set)
         IN  mutateAddLoop(set, size, max, mutPt + 1,
                 outs \o mutateOpSum(eSet, size + 1, mutPt + 1, 1, max)
                      \o mutateOpDiff(eSet, size + 1, mutPt + 1, 1, max))
    ELSE outs

mutateAdd(set, size, max) == mutateAddLoop(set, size, max, 0, << >>)

\* insertEqPair(): the merge from source index `index` on; a value of zero
\* in minor / major means nothing left to insert.  Result: the sets output
\* (none when the pair collides).
RECURSIVE eqPairLoop(_, _, _, _, _, _, _)
eqPairLoop(eSet, eSize, mutPt, set, index, minor, major) ==
    IF index < eSize - 1
    THEN IF minor < set[index + 1] /\ minor # 0
         THEN eqPairLoop(Append(eSet, minor), eSize, mutPt, set, index,
                         major, 0)
         ELSE IF minor = set[index + 1] THEN << >>
         ELSE eqPairLoop(IF index # mutPt THEN Append(eSet, set[index + 1])
                         ELSE eSet,
                         eSize, mutPt, set, index + 1, minor, major)
    ELSE LET e1 == IF minor # 0 THEN Append(eSet, minor) ELSE eSet
             e2 == IF major # 0 THEN Append(e1, major) ELSE e1
         IN  <<e2>>

insertEqPair(eSize, mutPt, set, minor, major) ==
    eqPairLoop(<< >>, eSize, mutPt, set, 0, minor, major)

\* mutateMul(): the product pairs of mutVal from minor factor `minor` on
RECURSIVE mulProdLoop(_, _, _, _, _)
mulProdLoop(set, size, mutPt, minor, outs) ==
    LET mutVal == set[mutPt + 1]
    IN  IF minor < mutVal \div minor
        THEN mulProdLoop(set, size, mutPt, minor + 1,
                 IF mutVal % minor # 0 THEN outs
                 ELSE outs \o insertEqPair(size + 1, mutPt, set, minor,
                                           mutVal \div minor))
        ELSE outs

\* mutateMul(): the quotient pairs of mutVal from divisor `divisor` on
RECURSIVE mulQuotLoop(_, _, _, _, _, _)
mulQuotLoop(set, size, max, mutPt, divisor, outs) ==
    LET mutVal == set[mutPt + 1]
    IN  IF divisor <= max \div mutVal
        THEN mulQuotLoop(set, size, max, mutPt, divisor + 1,
                 outs \o insertEqPair(size + 1, mutPt, set, divisor,
                                      mutVal * divisor))
        ELSE outs

RECURSIVE mutateMulLoop(_, _, _, _, _)
mutateMulLoop(set, size, max, mutPt, outs) ==
    IF mutPt < size
    THEN IF set[mutPt + 1] = 1
         THEN mutateMulLoop(set, size, max, mutPt + 1, outs)
         ELSE mutateMulLoop(set, size, max, mutPt + 1,
                  mulQuotLoop(set, size, max, mutPt, 2,
                      mulProdLoop(set, size, mutPt, 1, outs)))
    ELSE outs

\* a loop that leaves out the first value
mutateMul_fromSecond(set, size, max) ==
    mutateMulLoop(set, size, max, 1, << >>)

mutateMul(set, size, max) == mutateMulLoop(set, size, max, 0, << >>)

\* the input validation of expand(): TRUE when it returns -1
expandInvalid(set, size, max) ==
    \/ set[1] < 1
    \/ \E i \in 2 .. size : set[i] <= set[i - 1]
    \/ set[size] > max

hasMode(mode, flag) == BitAnd(mode, flag) # 0

\* expand(): return value and the sets handed to the output function, in
\* the order of the calls
expand(set, size, max, mode) ==
    IF expandInvalid(set, size, max) THEN [ret |-> -1, outs |-> << >>]
    ELSE IF size >= 2 /\ set[size - 1] > max THEN [ret |-> 0, outs |-> << >>]
    ELSE LET a == IF hasMode(mode, EXPAND_MUT_ADD)
                  THEN mutateAdd(set, size, max) ELSE << >>
             m == IF hasMode(mode, EXPAND_MUT_MUL)
                  THEN mutateMul(set, size, max) ELSE << >>
             s == IF hasMode(mode, EXPAND_SUPERS) /\ ~(set[size] > max)
                  THEN supers(set, size, 1, max) ELSE << >>
         IN  [ret |-> 0, outs |-> a \o m \o s]

\* a loop entered at the first index whatever the offset
queryEnter_noOffset(base, offset, skip) ==
    [i |-> 0, skip |-> skip, total |-> TOTAL_B(base),
     values |-> queryFirst(base.mval_min, base.varSize, base.fixedv,
                           base.fixedSize, 0)]

\* query(): the local variables when the loop is entered
queryEnter(base, offset, skip) ==
    [i |-> offset, skip |-> skip, total |-> TOTAL_B(base),
     values |-> queryFirst(base.mval_min, base.varSize, base.fixedv,
                           base.fixedSize, offset)]

\* ------------------------------------------------------------- generation
\* the sets of a sequence whose last value is minM or more
RECURSIVE fromMinM(_, _)
fromMinM(outs, minM) ==
    IF outs = << >> THEN << >>
    ELSE LET e == Head(outs)
         IN  (IF e[Len(e)] >= minM THEN <<e>> ELSE << >>)
                 \o fromMinM(Tail(outs), minM)

\* expand() as generation.c calls it, with both ends of the M-range: the
\* expansions of expand() for maxM that have an M-value of minM or more
expandRanged(set, size, minM, maxM, mode) ==
    fromMinM(expand(set, size, maxM, mode).outs, minM)

RECURSIVE withMask(_, _)
withMask(outs, mask) ==
    IF outs = << >> THEN << >>
    ELSE << <<Head(outs), mask>> >> \o withMask(Tail(outs), mask)

\* a handleExpand() that mutates on a thorough expansion only
handleExpand_thoroughOnly(set, size, bits, o) ==
    (IF o.expandSupers
     THEN withMask(expandRanged(set, size, o.minM, o.maxM, EXPAND_SUPERS),
                   BitOr(NULLIF, ONLY_SUP))
     ELSE << >>)
    \o (IF o.expandMutate /\ o.expandThorough
        THEN withMask(expandRanged(set, size, o.minM, o.maxM,
                          BitOr(EXPAND_MUT_ADD, EXPAND_MUT_MUL)), NULLIF)
        ELSE << >>)

\* a handleExpand() whose two phases both end in elim_onlySup
handleExpand_onlySupBoth(set, size, bits, o) ==
    (IF o.expandSupers
     THEN withMask(expandRanged(set, size, o.minM, o.maxM, EXPAND_SUPERS),
                   BitOr(NULLIF, ONLY_SUP))
     ELSE << >>)
    \o (IF o.expandMutate /\ (BitAnd(bits, ONLY_SUP) = 0 \/ o.expandThorough)
        THEN withMask(expandRanged(set, size, o.minM, o.maxM,
                          BitOr(EXPAND_MUT_ADD, EXPAND_MUT_MUL)),
                      BitOr(NULLIF, ONLY_SUP))
        ELSE << >>)

\* handleExpand(): the sr_mark calls on the destination it makes through
\* elim_onlySup and elim_nul, in order, as <<set, mask>>
handleExpand(set, size, bits, o) ==
    (IF o.expandSupers
     THEN withMask(expandRanged(set, size, o.minM, o.maxM, EXPAND_SUPERS),
                   BitOr(NULLIF, ONLY_SUP))
     ELSE << >>)
    \o (IF o.expandMutate /\ (BitAnd(bits, ONLY_SUP) = 0 \/ o.expandThorough)
        THEN withMask(expandRanged(set, size, o.minM, o.maxM,
                          BitOr(EXPAND_MUT_ADD, EXPAND_MUT_MUL)), NULLIF)
        ELSE << >>)


\* ================================================================ state
VARIABLES
    base,       \* the record of the record specifications (struct Base)
    call,       \* the last library call made: function, arguments, results
    ncalls,     \* number of modifying calls made on base
    hist,       \* history: what the calls so far asked for
    src,        \* generation: the source record
    dest,       \* generation: the destination record
    opts,       \* generation: the options and the number of threads
    th          \* the threads: where each is and what it holds

vars == <<base, call, ncalls, hist, src, dest, opts, th>>

recVars == <<base, call, ncalls, hist>>
genVars == <<src, dest, opts>>

\* the variables a specification does not use
NoRec == base = << >> /\ call = [fn |-> "none"] /\ ncalls = 0
NoGen == src = << >> /\ dest = << >> /\ opts = << >>
NoThreads == th = << >>

\* ---------------------------------------------------------- input sets
\* the values of a sequence
Range(seq) == {seq[i] : i \in DOMAIN seq}

\* what malloc may have left in the fixedv cells sr_initialize leaves alone
Junk == {0}

\* values a full set may hold: the variable segment's plus two above it
Vals == 1 .. (MaxVal + 2)

\* strictly ascending sequences of n values out of S
AscSeqs(n, S) == {s \in [1 .. n -> S] : \A i \in 1 .. (n - 1) : s[i] < s[i + 1]}

\* sequences of n values out of S given as tuples
Tuples(n, S) == {SubSeq(s, 1, n) : s \in [1 .. n -> S]}

\* sets handed to sr_mark: every valid set of the record's size, and some
\* invalid ones (zero first value, descending, wrong size)
MarkInputs(size) ==
    {SubSeq(s, 1, size) : s \in AscSeqs(size, Vals)}
        \cup {SubSeq(s, 1, size) : s \in AscSeqs(size, {0, 1, 2, 3})}
        \cup {<<2, 1, 3>>, <<2, 2>>, <<3, 1>>, <<1, 3, 2>>}
        \cup {SubSeq(s, 1, size + 1) : s \in AscSeqs(size + 1, 1 .. 4)}

\* fixed segments handed to sr_alloc: none, one or two values above the
\* M-range, one inside it, a descending pair and one of five values
FixedInputs ==
    {<< >>, <<MaxVal + 1>>, <<MaxVal>>, <<MaxVal + 1, MaxVal + 2>>,
     <<MaxVal + 2, MaxVal + 1>>,
     <<MaxVal + 1, MaxVal + 2, MaxVal + 3, MaxVal + 4, MaxVal + 5>>}

\* M-ranges handed to sr_alloc: a minimum below every set size or near the
\* top, a maximum at the bottom or at the top
MinMInputs == {0, MaxVal - 1}
MaxMInputs == {1, MaxVal}

\* ------------------------------------------- sequential record operations
\* The program stops on a failed sr_alloc (CK_RES / FAULT in the callers)
Faulted == call.fn = "sr_alloc" /\ call.ret # 0

\* A query leaves the record as it is: the calls that follow one are
\* explored from the state it was made in
Queried == call.fn \in {"sr_query", "sr_query_parallel"}

NoScan == [crit |-> <<0, 0>>, concurrents |-> 0, res |-> << >>]

InitRec ==
    /\ \E size \in 1 .. MaxSize, junk \in Junk :
            base = sr_initialize(size, junk)
    /\ call = [fn |-> "sr_initialize"]
    /\ ncalls = 0
    /\ hist = [acc |-> {}, scan |-> NoScan]
    /\ NoGen /\ NoThreads

\* the accumulated mask asked for on a set since the last allocation
AccOf(acc, set) ==
    IF \E p \in acc : p[1] = set
    THEN (CHOOSE p \in acc : p[1] = set)[2]
    ELSE 0

AccOr(acc, set, mask) ==
    {p \in acc : p[1] # set} \cup {<<set, BitOr(AccOf(acc, set), mask)>>}

RECURSIVE AccAll(_, _)
AccAll(acc, marks) ==
    IF marks = << >> THEN acc
    ELSE AccAll(AccOr(acc, Head(marks)[1], Head(marks)[2]), Tail(marks))

\* the record specifications allocate a record once
SrAlloc(varSize, minm, maxm, fixedv, callocOk) ==
    /\ ~Faulted /\ ~Queried
    /\ base.isNull
    /\ LET r == sr_alloc(base, varSize, minm, maxm, fixedv, callocOk)
       IN  /\ base' = r.base
           /\ call' = [fn |-> "sr_alloc", ret |-> r.ret, errno |-> r.errno,
                       varSize |-> varSize, minm |-> minm, maxm |-> maxm,
                       fixedv |-> fixedv]
           /\ hist' = IF r.ret = 0 THEN [acc |-> {}, scan |-> NoScan]
                      ELSE [hist EXCEPT !.scan = NoScan]
    /\ ncalls' = ncalls + 1
    /\ UNCHANGED <<genVars, th>>

SrMark(set, mask) ==
    /\ ~Faulted /\ ~Queried
    /\ LET r == sr_mark(base, set, mask)
       IN  /\ base' = r.base
           /\ call' = [fn |-> "sr_mark", ret |-> r.ret,
                       set |-> set, mask |-> mask]
           /\ hist' = [acc |-> IF r.ret >= 0 /\ ~markSkipped(base, set)
                               THEN AccOr(hist.acc, set, mask)
                               ELSE hist.acc,
                       scan |-> NoScan]
    /\ ncalls' = ncalls + 1
    /\ UNCHANGED <<genVars, th>>

SrQuery(mask, bits, hasOut) ==
    /\ ~Faulted /\ ~Queried
    /\ LET r == sr_query(base, mask, bits, hasOut)
       IN  call' = [fn |-> "sr_query", ret |-> r.ret, outs |-> r.outs,
                    read |-> r.read, mask |-> mask, bits |-> bits,
                    hasOut |-> hasOut]
    /\ hist' = [hist EXCEPT !.scan = NoScan]
    /\ UNCHANGED <<base, ncalls, genVars, th>>

\* the criteria the parallel scans are run with: those of the utilities
\* (generation, weed) and of the library's test program
ScanCriteria == {<<NULLIF, NULLIF>>, <<NULLIF, 0>>, <<0, 0>>}

\* A scan is a series of sr_query_parallel calls with the same criteria
\* and number of concurrent calls, mod = 0, 1, ... in turn; a call with
\* mod >= concurrents may be made at any time.
SrQueryParallel(crit, concurrents, mod) ==
    /\ ~Faulted
    /\ \/ ~Queried /\ mod >= concurrents
       \/ ~Queried /\ mod = 0
       \/ /\ mod > 0 /\ mod < concurrents
          /\ hist.scan.crit = crit
          /\ hist.scan.concurrents = concurrents
          /\ mod = Len(hist.scan.res)
    /\ LET r == sr_query_parallel(base, crit[1], crit[2], concurrents, mod,
                                  TRUE)
       IN  /\ call' = [fn |-> "sr_query_parallel", ret |-> r.ret,
                       outs |-> r.outs, read |-> r.read,
                       mask |-> crit[1], bits |-> crit[2],
                       concurrents |-> concurrents, mod |-> mod]
           /\ hist' = [hist EXCEPT !.scan =
                         IF mod >= concurrents THEN NoScan
                         ELSE [crit |-> crit, concurrents |-> concurrents,
                               res |-> IF mod = 0 THEN <<r>>
                                       ELSE Append(hist.scan.res, r)]]
    /\ UNCHANGED <<base, ncalls, genVars, th>>

NextRec ==
    \/ \E varSize \in 1 .. MaxSize, minm \in MinMInputs, maxm \in MaxMInputs,
          fixedv \in FixedInputs, callocOk \in BOOLEAN :
            ncalls < MaxCalls /\ SrAlloc(varSize, minm, maxm, fixedv, callocOk)
    \/ \E set \in MarkInputs(base.size), mask \in Masks :
            ncalls < MaxCalls /\ SrMark(set, mask)
    \/ \E mask \in Masks, bits \in Masks : SrQuery(mask, bits, TRUE)
    \/ \E crit \in ScanCriteria : SrQuery(crit[1], crit[2], FALSE)
    \/ \E crit \in ScanCriteria, concurrents \in 0 .. MaxThreads :
          \E mod \in 0 .. concurrents :
            SrQueryParallel(crit, concurrents, mod)

SpecRec == InitRec /\ [][NextRec]_vars

\* ------------------------------------------------- filling a record
\* The same operations with fewer inputs and more marks: a record of one
\* of three shapes is allocated, up to MaxMarks marks are made on sets it
\* addresses (and on some it does not), and it is queried.
FillAllocInputs ==
    {<<2, 2, MaxVal - 1, MaxVal, << >> >>,
     <<2, 1, 2, 4, <<MaxVal + 1>> >>,
     <<3, 3, 0, 4, << >> >>}

FillMarkInputs(b) ==
    {s \in MarkInputs(b.size) :
        ~markInvalid(b, s) /\ s[b.size] <= MaxVal + 1}

InitFill ==
    /\ \E size \in {2, 3}, junk \in Junk : base = sr_initialize(size, junk)
    /\ call = [fn |-> "sr_initialize"]
    /\ ncalls = 0
    /\ hist = [acc |-> {}, scan |-> NoScan]
    /\ NoGen /\ NoThreads

NextFill ==
    \/ \E a \in FillAllocInputs :
            a[1] = base.size /\ SrAlloc(a[2], a[3], a[4], a[5], TRUE)
    \/ \E set \in FillMarkInputs(base), mask \in Masks \ {0} :
            ~base.isNull /\ ncalls < MaxMarks + 1 /\ SrMark(set, mask)
    \/ \E mask \in Masks, bits \in Masks : SrQuery(mask, bits, TRUE)

SpecFill == InitFill /\ [][NextFill]_vars


\* ------------------------------------------------------ concurrent marks
\* Threads call sr_mark on one allocated record at the same time.  A call
\* takes two steps: sr_mark() up to mark()'s atomic_fetch_or (it only reads
\* the structure, which no thread writes, and computes the index), then
\* the atomic_fetch_or and the return.
\* Threads are alike, so they enter in the order of their numbers.
MarkAllocInputs ==
    {<<2, 0, 3, << >> >>, <<1, MaxVal - 1, MaxVal, <<MaxVal + 1>> >>}

\* marks made before the threads start: sets and masks
PriorInputs == {<< >>, << <<2, 3>>, ONLY_SUP>>, << <<MaxVal, MaxVal + 1>>, NULLIF>>}

\* the sets the threads mark: the lowest two the record addresses, and
\* one it does not address and an invalid one
ThreadSets(b) ==
    {s \in MarkInputs(b.size) :
        \/ ~markInvalid(b, s) /\ ~markSkipped(b, s)
              /\ markIndex(b.mval_min, s, b.varSize) < 2
        \/ s = <<1, MaxVal + 2>>
        \/ s = <<2, 1>>}

RECURSIVE Idles(_)
Idles(n) == IF n = 0 THEN << >> ELSE Append(Idles(n - 1), [pc |-> "idle"])

InitMark ==
    /\ \E a \in MarkAllocInputs, p \in PriorInputs :
          LET b0 == sr_alloc(sr_initialize(2, 0), a[1], a[2], a[3], a[4],
                             TRUE).base
              b1 == IF p = << >> THEN b0 ELSE sr_mark(b0, p[1], p[2]).base
          IN  /\ base = b1
              /\ hist = [prior |-> b1.rec, sets |-> ThreadSets(b1)]
    /\ call = [fn |-> "none"]
    /\ ncalls = 0
    /\ th = Idles(MaxThreads)
    /\ NoGen

\* sr_mark() up to the call of mark()
MarkEnter(t, set, mask) ==
    /\ th[t].pc = "idle"
    /\ t > 1 => th[t - 1].pc # "idle"
    /\ th' = [th EXCEPT ![t] =
                IF markInvalid(base, set)
                THEN [pc |-> "done", set |-> set, mask |-> mask,
                      index |-> -1, ret |-> -1]
                ELSE IF markSkipped(base, set)
                THEN [pc |-> "done", set |-> set, mask |-> mask,
                      index |-> -1, ret |-> 0]
                ELSE [pc |-> "mark", set |-> set, mask |-> mask,
                      index |-> markIndex(base.mval_min, set, base.varSize)]]
    /\ UNCHANGED <<recVars, genVars>>

\* mark(): the atomic OR and sr_mark's return
MarkOr(t) ==
    /\ th[t].pc = "mark"
    /\ LET r == mark(base.rec, base.mval_min, th[t].set, base.varSize,
                     th[t].mask)
       IN  /\ base' = [base EXCEPT !.rec = r.rec]
           /\ th' = [th EXCEPT ![t] = [pc |-> "done", set |-> th[t].set,
                                       mask |-> th[t].mask,
                                       index |-> th[t].index,
                                       ret |-> r.ret]]
    /\ UNCHANGED <<call, ncalls, hist, genVars>>

NextMark ==
    \/ \E t \in 1 .. MaxThreads, set \in hist.sets,
          mask \in Masks \ {0} : MarkEnter(t, set, mask)
    \/ \E t \in 1 .. MaxThreads : MarkOr(t)

SpecMark == InitMark /\ [][NextMark]_vars


\* -------------------------------------------------------- generation pass
\* The generation utility from the creation of its threads to their join.
\* A worker's steps: entering sr_query_parallel, reading the source byte
\* at its index (and calling handleExpand if it matches), and each sr_mark
\* on the destination that handleExpand asks for.

\* source records: their size and the marks they hold
GenSources ==
    {<<1, << <<<<1>>, NULLIF>>, <<<<2>>, NULLIF>>, <<<<3>>, NULLIF>>,
             <<<<4>>, NULLIF>> >> >>,
     <<1, << <<<<1>>, MARKED>>, <<<<3>>, NULLIF>>, <<<<4>>, ONLY_SUP>> >> >>,
     <<1, << <<<<2>>, NULLIF>>, <<<<4>>, MARKED>> >> >>,
     <<2, << <<<<1, 2>>, NULLIF>>, <<<<1, 3>>, MARKED>>, <<<<2, 4>>, NULLIF>>,
             <<<<3, 4>>, MARKED>> >> >>}

\* destination records: created from the source (-c), or imported with the
\* M-range given and the marks given
GenDests ==
    {[create |-> TRUE, minm |-> 0, maxm |-> 0, marks |-> << >>],
     [create |-> FALSE, minm |-> 0, maxm |-> MaxVal,
      marks |-> << <<<<1, 2>>, ONLY_SUP>>, <<<<1, 2, 3>>, ONLY_SUP>>,
                   <<<<3, 4>>, NULLIF>> >>],
     [create |-> FALSE, minm |-> MaxVal - 1, maxm |-> MaxVal + 1,
      marks |-> << >>]}

\* the expansion phases after the default is applied
GenPhases ==
    {[expandSupers |-> TRUE, expandMutate |-> TRUE, expandThorough |-> FALSE],
     [expandSupers |-> FALSE, expandMutate |-> TRUE, expandThorough |-> TRUE],
     [expandSupers |-> TRUE, expandMutate |-> FALSE, expandThorough |-> FALSE]}

\* a record after the marks of a sequence of <<set, mask>>
RECURSIVE markAll(_, _)
markAll(b, marks) ==
    IF marks = << >> THEN b
    ELSE markAll(sr_mark(b, Head(marks)[1], Head(marks)[2]).base, Tail(marks))

RECURSIVE Starts(_)
Starts(n) == IF n = 0 THEN << >> ELSE Append(Starts(n - 1), [pc |-> "start"])

InitGen ==
    /\ \E g \in GenSources, d \in GenDests, ph \in GenPhases,
          threads \in 1 .. MaxThreads :
          LET srcSize == g[1]
              s0 == sr_alloc(sr_initialize(srcSize, 0), srcSize, 0, MaxVal,
                             << >>, TRUE).base
              s1 == markAll(s0, g[2])
              d0 == IF d.create
                    THEN sr_alloc(sr_initialize(srcSize + 1, 0),
                                  srcSize + 1 - s1.fixedSize, s1.mval_min,
                                  s1.mval_max,
                                  SubSeq(s1.fixedv, 1, s1.fixedSize),
                                  TRUE).base
                    ELSE sr_alloc(sr_initialize(srcSize + 1, 0), srcSize + 1,
                                  d.minm, d.maxm, << >>, TRUE).base
              d1 == markAll(d0, d.marks)
          IN  /\ src = s1
              /\ dest = d1
              /\ opts = [threads |-> threads,
                         expandSupers |-> ph.expandSupers,
                         expandMutate |-> ph.expandMutate,
                         expandThorough |-> ph.expandThorough,
                         minM |-> IF d1.fixedSize > 0
                                  THEN d1.fixedv[d1.fixedSize]
                                  ELSE d1.mval_min,
                         maxM |-> IF d1.fixedSize > 0
                                  THEN d1.fixedv[d1.fixedSize]
                                  ELSE d1.mval_max]
              /\ th = Starts(threads)
              /\ hist = [dest0 |-> d1, visits |-> << >>, asked |-> {},
                         srcAcc |-> AccAll({}, g[2])]
    /\ call = [fn |-> "generation", pc |-> "threads"]
    /\ base = << >>
    /\ ncalls = 0

\* threadOp() up to the loop of query()
WorkerEnter(t) ==
    /\ th[t].pc = "start"
    /\ LET q == queryEnter(src, t - 1, opts.threads)
       IN  th' = [th EXCEPT ![t] =
                    [pc |-> "scan", i |-> q.i, skip |-> q.skip,
                     total |-> q.total, values |-> q.values,
                     todo |-> << >>]]
    /\ UNCHANGED <<recVars, genVars>>

\* the thread's variables after the loop's increment
Advanced(w) ==
    [w EXCEPT !.pc = "scan", !.i = w.i + w.skip, !.todo = << >>,
              !.values = incSetValues(w.values, src.varSize, w.skip)]

\* one pass of the loop of query() up to the call of the output function:
\* the end of the loop, a set that does not match, or a set that matches
\* and the marks handleExpand() will make for it
WorkerScan(t) ==
    /\ th[t].pc = "scan"
    /\ LET w == th[t]
       IN  IF w.i >= w.total
           THEN /\ th' = [th EXCEPT ![t] = [pc |-> "done"]]
                /\ hist' = hist
           ELSE LET cur == src.rec[w.i + 1]
                IN  IF ~match(cur, NULLIF, NULLIF)
                    THEN /\ th' = [th EXCEPT ![t] = Advanced(w)]
                         /\ hist' = hist
                    ELSE LET todo == handleExpand(w.values, src.size, cur,
                                                  opts)
                         IN  /\ th' = [th EXCEPT ![t] =
                                    IF todo = << >> THEN Advanced(w)
                                    ELSE [w EXCEPT !.pc = "expand",
                                                   !.todo = todo]]
                             /\ hist' = [hist EXCEPT
                                    !.visits = Append(@, w.values),
                                    !.asked = @ \cup Range(todo)]
    /\ UNCHANGED <<base, call, ncalls, genVars>>

\* elim_onlySup() / elim_nul(): the next sr_mark on the destination
WorkerMark(t) ==
    /\ th[t].pc = "expand"
    /\ LET w == th[t]
           m == Head(w.todo)
           r == sr_mark(dest, m[1], m[2])
       IN  /\ r.ret >= 0
           /\ dest' = r.base
           /\ th' = [th EXCEPT ![t] =
                        IF Tail(w.todo) = << >> THEN Advanced(w)
                        ELSE [w EXCEPT !.todo = Tail(w.todo)]]
    /\ UNCHANGED <<recVars, src, opts>>

\* main(): the joins
Join ==
    /\ call.pc = "threads"
    /\ \A t \in 1 .. Len(th) : th[t].pc = "done"
    /\ call' = [call EXCEPT !.pc = "joined"]
    /\ UNCHANGED <<base, ncalls, hist, genVars, th>>

NextGen ==
    \/ \E t \in 1 .. Len(th) : WorkerEnter(t)
    \/ \E t \in 1 .. Len(th) : WorkerScan(t)
    \/ \E t \in 1 .. Len(th) : WorkerMark(t)
    \/ Join

SpecGen == InitGen /\ [][NextGen]_vars


\* ------------------------------------------------------------- expansion
\* strictly ascending tuples of k values out of 1 .. m
RECURSIVE Combos(_, _)
Combos(k, m) ==
    IF k = 0 THEN {<< >>}
    ELSE IF m < k THEN {}
    ELSE Combos(k, m - 1) \cup {Append(c, m) : c \in Combos(k - 1, m - 1)}

\* expand() is called with a set, a maximum and a mode
InitExpand ==
    /\ \E size \in 1 .. MaxSize, max \in 1 .. ExpandMax, mode \in 0 .. 7 :
          \E set \in Combos(size, ExpandMax) :
            call = [fn |-> "expand", pc |-> "called", set |-> set,
                    max |-> max, mode |-> mode]
    /\ base = << >> /\ ncalls = 0 /\ hist = << >>
    /\ NoGen /\ NoThreads

Expand ==
    /\ call.fn = "expand" /\ call.pc = "called"
    /\ LET r == expand(call.set, Len(call.set), call.max, call.mode)
       IN  call' = [fn |-> "expand", pc |-> "returned", set |-> call.set,
                    max |-> call.max, mode |-> call.mode,
                    ret |-> r.ret, outs |-> r.outs]
    /\ UNCHANGED <<base, ncalls, hist, genVars, th>>

NextExpand == Expand

SpecExpand == InitExpand /\ [][NextExpand]_vars

\* -------------------------------------------------------- index functions
\* the tuple 1, 2, ... n + 1 without the value o
RECURSIVE Without(_, _)
Without(n, o) ==
    IF n = 0 THEN << >>
    ELSE Append(Without(n - 1, o), IF n < o THEN n ELSE n + 1)

\* tuples of 20 values out of 1 .. 21: the first six in the order of the
\* record (from the eighth on the search of indexToSet does not end, as
\* mcn(i, 20) is 7 at most)
WideSets == {Without(20, o) : o \in 16 .. 21}

\* setToIndex, indexToSet and incSetValues applied to tuples of up to
\* MaxSize values and to wide tuples, and to indices
IndexSets ==
    UNION {Combos(k, MaxVal + 2) : k \in 1 .. MaxSize} \cup WideSets

InitIndex ==
    /\ \/ \E x \in IndexSets : call = [fn |-> "args", set |-> x]
       \/ \E k \in 1 .. MaxSize, i \in 0 .. MaxIndex :
             call = [fn |-> "args", varSize |-> k, index |-> i]
       \/ \E x \in IndexSets, n \in 0 .. MaxAdd :
             call = [fn |-> "args", set |-> x, add |-> n]
    /\ base = << >> /\ ncalls = 0 /\ hist = << >>
    /\ NoGen /\ NoThreads

IsArgs(fields) == call.fn = "args" /\ DOMAIN call = {"fn"} \cup fields

\* setToIndex of a tuple, then indexToSet of the index
SetToIndexCall ==
    /\ IsArgs({"set"})
    /\ call' = [fn |-> "setToIndex", set |-> call.set,
                index |-> setToIndex(call.set, Len(call.set))]
    /\ UNCHANGED <<base, ncalls, hist, genVars, th>>

IndexToSetBack ==
    /\ call.fn = "setToIndex" /\ DOMAIN call = {"fn", "set", "index"}
    /\ call' = [fn |-> "indexToSet", of |-> call.set, index |-> call.index,
                set |-> indexToSet(Len(call.set), call.index)]
    /\ UNCHANGED <<base, ncalls, hist, genVars, th>>

\* indexToSet of an index, then setToIndex of the tuple
IndexToSetCall ==
    /\ IsArgs({"varSize", "index"})
    /\ call' = [fn |-> "indexToSet", index |-> call.index,
                set |-> indexToSet(call.varSize, call.index)]
    /\ UNCHANGED <<base, ncalls, hist, genVars, th>>

SetToIndexBack ==
    /\ call.fn = "indexToSet" /\ DOMAIN call = {"fn", "set", "index"}
    /\ call' = [fn |-> "setToIndex", of |-> call.index, set |-> call.set,
                index |-> setToIndex(call.set, Len(call.set))]
    /\ UNCHANGED <<base, ncalls, hist, genVars, th>>

IncSetValuesCall ==
    /\ IsArgs({"set", "add"})
    /\ call' = [fn |-> "incSetValues", of |-> call.set, add |-> call.add,
                set |-> incSetValues(call.set, Len(call.set), call.add)]
    /\ UNCHANGED <<base, ncalls, hist, genVars, th>>

NextIndex ==
    \/ SetToIndexCall
    \/ IndexToSetBack
    \/ IndexToSetCall
    \/ SetToIndexBack
    \/ IncSetValuesCall

SpecIndex == InitIndex /\ [][NextIndex]_vars


\* ====================================================== record properties
\* Binomial coefficient by Pascal's rule
RECURSIVE Choose(_, _)
Choose(m, n) ==
    IF n = 0 THEN 1
    ELSE IF m < n THEN 0
    ELSE Choose(m - 1, n - 1) + Choose(m - 1, n)

\* every valid set of a record's size over the values in use
ValidSets(size) == {SubSeq(s, 1, size) : s \in AscSeqs(size, Vals)}

IsValidSet(b, s) ==
    /\ Len(s) = b.size
    /\ s[1] >= 1
    /\ \A i \in 1 .. (Len(s) - 1) : s[i] < s[i + 1]

\* the variable segment's M-value is in the M-range and the tail is the
\* record's fixed segment
IsAddressable(b, s) ==
    /\ IsValidSet(b, s)
    /\ s[b.varSize] >= b.mval_min /\ s[b.varSize] <= b.mval_max
    /\ SubSeq(s, b.varSize + 1, b.size) = SubSeq(b.fixedv, 1, b.fixedSize)

AddressableSets(b) == {s \in ValidSets(b.size) : IsAddressable(b, s)}

Count(seq, x) == Cardinality({i \in DOMAIN seq : seq[i] = x})

RECURSIVE AllOuts(_)
AllOuts(res) == IF res = << >> THEN << >> ELSE Head(res).outs \o AllOuts(Tail(res))

RECURSIVE AllRead(_)
AllRead(res) == IF res = << >> THEN << >> ELSE Head(res).read \o AllRead(Tail(res))

RECURSIVE SumRet(_)
SumRet(seqs) == IF seqs = << >> THEN 0 ELSE Head(seqs).ret + SumRet(Tail(seqs))

\* --------------------------------------------------------------------- C3
\* C3: the sr_query_parallel calls of one scan (same criteria, concurrents
\* = W, mod = 0 .. W - 1) read pairwise disjoint sets of indices, all below
\* the total; once all W are made the indices read are all of 0 .. T - 1,
\* the sets output are, as a multiset, those sr_query outputs for the same
\* criteria, and the counts returned add up to its count.  A call with
\* mod >= concurrents returns -1 and reads nothing.
C3_ScanSoFar ==
    LET sc == hist.scan
        n == Len(sc.res)
        T == sr_getTotal(base)
    IN  /\ \A w \in 1 .. n : \A k \in DOMAIN sc.res[w].read :
              /\ sc.res[w].read[k] \in 0 .. (T - 1)
              /\ \A w2 \in 1 .. n : \A k2 \in DOMAIN sc.res[w2].read :
                    sc.res[w].read[k] = sc.res[w2].read[k2]
                        => w = w2 /\ k = k2
        /\ n > 0 /\ n = sc.concurrents =>
              LET whole == sr_query(base, sc.crit[1], sc.crit[2], TRUE)
                  outs == AllOuts(sc.res)
                  reads == AllRead(sc.res)
              IN  /\ Range(reads) = 0 .. (T - 1)
                  /\ Len(outs) = Len(whole.outs)
                  /\ \A x \in Range(whole.outs) :
                        Count(outs, x) = Count(whole.outs, x)
                  /\ SumRet(sc.res) = whole.ret

C3_ParallelQueryCovers ==
    /\ call.fn = "sr_query_parallel" /\ call.mod >= call.concurrents
          => call.ret = -1 /\ call.read = << >> /\ call.outs = << >>
    /\ call.fn = "sr_query_parallel" /\ call.mod < call.concurrents
          => C3_ScanSoFar

\* a scan of three calls, each of which output a set
C3_Witness ==
    /\ call.fn = "sr_query_parallel"
    /\ hist.scan.concurrents = 3 /\ Len(hist.scan.res) = 3
    /\ \A w \in 1 .. 3 : hist.scan.res[w].ret >= 1

\* --------------------------------------------------------------------- C7
\* C7: an sr_mark call with a set of the wrong size, with a first value
\* below 1 or not strictly ascending returns -1; one with a valid set the
\* record does not address (M-value out of range, other fixed values, or
\* a record never allocated) returns 0; either leaves the record as it was.
C7_Step ==
    call'.fn = "sr_mark" /\ ncalls' = ncalls + 1 =>
        /\ ~IsValidSet(base, call'.set) => call'.ret = -1 /\ base' = base
        /\ IsValidSet(base, call'.set) /\ ~IsAddressable(base, call'.set)
              => call'.ret = 0 /\ base' = base

C7_RejectedMarkLeavesRecord == [][C7_Step]_vars

\* a valid set with an M-value in range but another fixed value, marked on
\* an allocated record
C7_Witness ==
    /\ call.fn = "sr_mark" /\ call.ret = 0 /\ call.mask # 0
    /\ ~base.isNull /\ Len(base.rec) > 1 /\ base.fixedSize > 0
    /\ IsValidSet(base, call.set)
    /\ call.set[base.varSize] \in base.mval_min .. base.mval_max
    /\ ~IsAddressable(base, call.set)

\* --------------------------------------------------------------------- C9
\* C9: on an allocated record a scan with mask 0 and bits 0 returns
\* C(maxM, varSize) - C(minM - 1, varSize); on a record whose M-range is
\* empty or that was never allocated every query returns 0 and outputs
\* nothing.
C9_FullScanCount ==
    /\ call.fn = "sr_query" /\ call.mask = 0 /\ call.bits = 0 /\ ~base.isNull
          => call.ret = Choose(base.mval_max, base.varSize)
                            - Choose(base.mval_min - 1, base.varSize)
    /\ (/\ call.fn \in {"sr_query", "sr_query_parallel"}
        /\ call.fn = "sr_query_parallel" => call.mod < call.concurrents
        /\ base.isNull \/ base.mval_max < base.mval_min)
          => call.ret = 0 /\ call.outs = << >>

\* a full scan of a record whose M-range starts above the variable size
C9_Witness ==
    /\ call.fn = "sr_query" /\ call.mask = 0 /\ call.bits = 0
    /\ ~base.isNull /\ base.varSize = 2 /\ base.mval_min = MaxVal - 1
    /\ call.ret > 2

\* --------------------------------------------------------------------- C4
\* the sets the calls output, without the bytes
OutSets(outs) == [i \in DOMAIN outs |-> outs[i][1]]

\* every mark made so far asked for mask m
AllMarkedWith(m) == hist.acc # {} /\ \A p \in hist.acc : p[2] = m

\* C4: the offsets mark() computes for the sets a record addresses are one
\* to one onto 0 .. T - 1, and after marks with one mask m on some of them
\* sr_query(m, m) outputs exactly the marked sets, each once, in full.
C4_MarkQuerySameByte ==
    /\ call.fn = "sr_alloc" /\ call.ret = 0 =>
          LET A == AddressableSets(base)
              T == Len(base.rec)
              ix(s) == markIndex(base.mval_min, s, base.varSize)
          IN  /\ \A s \in A : ix(s) \in 0 .. (T - 1)
              /\ \A s \in A : \A t \in A : ix(s) = ix(t) => s = t
              /\ Cardinality(A) = T
    /\ call.fn = "sr_query" /\ call.mask # 0 /\ call.bits = call.mask
          /\ AllMarkedWith(call.mask) =>
          /\ Range(OutSets(call.outs)) = {p[1] : p \in hist.acc}
          /\ Len(call.outs) = Cardinality(hist.acc)
          /\ call.ret = Cardinality(hist.acc)

\* three sets marked NULLIF, others left alone, and the query for NULLIF
C4_Witness ==
    /\ call.fn = "sr_query" /\ call.mask = NULLIF /\ call.bits = NULLIF
    /\ AllMarkedWith(NULLIF) /\ Cardinality(hist.acc) = 3
    /\ Len(base.rec) > 3 /\ base.mval_min > base.varSize

\* --------------------------------------------------------------------- C8
HasBit(x, k) == (x \div (2 ^ k)) % 2 = 1

\* the matching rule, bit by bit
Rule(b, mask, bits) ==
    IF mask # 0
    THEN \A k \in 0 .. (MaskBits - 1) :
            HasBit(mask, k) => (HasBit(b, k) <=> HasBit(bits, k))
    ELSE IF bits # 0
    THEN \E k \in 0 .. (MaskBits - 1) : HasBit(bits, k) /\ HasBit(b, k)
    ELSE TRUE

\* C8: sr_query(mask, bits) outputs exactly the addressed sets whose byte
\* b fits the rule (mask # 0: b and bits agree on the bits of mask;
\* mask = 0, bits # 0: b has a bit of bits; both 0: every set), each once
\* with its byte, and returns the number of sets it output.
C8_QueryRule ==
    call.fn = "sr_query" =>
        LET fit == {s \in AddressableSets(base) :
                        Rule(AccOf(hist.acc, s), call.mask, call.bits)}
        IN  /\ Range(call.outs) = {<<s, AccOf(hist.acc, s)>> : s \in fit}
            /\ Len(call.outs) = Cardinality(fit)
            /\ call.ret = Len(call.outs)

\* a query on bits beyond the mask that some sets fit and some do not
C8_Witness ==
    /\ call.fn = "sr_query" /\ call.mask = NULLIF /\ call.bits = MARKED
    /\ call.ret >= 2 /\ call.ret < Len(base.rec)
    /\ \E p \in hist.acc : p[2] = ONLY_SUP

\* --------------------------------------------------------------------- C1
\* the threads whose OR on the byte at index i is done
DoneOn(i) ==
    {t \in 1 .. Len(th) :
        th[t].pc = "done" /\ th[t].ret >= 0 /\ th[t].index = i}

\* x has every bit the threads of D asked for, and no bit beyond those
\* and the bits of before
IsOrOf(x, before, D) ==
    \A k \in 0 .. (MaskBits - 1) :
        HasBit(x, k) <=>
            (HasBit(before, k) \/ \E t \in D : HasBit(th[t].mask, k))

\* C1: whatever the order of the threads' marks, every byte is its value
\* before the marks OR-ed with the masks of the marks completed on its set
\* (bytes of other sets are as before), and no step clears a bit.
C1_State ==
    \A i \in 0 .. (Len(base.rec) - 1) :
        IsOrOf(base.rec[i + 1], hist.prior[i + 1], DoneOn(i))

C1_Step ==
    /\ C1_State'
    /\ Len(base'.rec) = Len(base.rec)
    /\ \A i \in 1 .. Len(base.rec) : \A k \in 0 .. (MaskBits - 1) :
          HasBit(base.rec[i], k) => HasBit(base'.rec[i], k)

C1_MarksAccumulate == [][C1_Step]_vars

\* two threads have marked one set with disjoint masks, the set held a
\* third bit pattern before, a third thread is between its two steps
C1_Witness ==
    /\ Len(th) >= 3
    /\ \E t \in 1 .. Len(th), u \in 1 .. Len(th) :
          /\ th[t].pc = "done" /\ th[u].pc = "done"
          /\ th[t].set = th[u].set
          /\ th[t].mask = NULLIF /\ th[u].mask = ONLY_SUP
          /\ th[t].ret = 1 /\ th[u].ret = 1
    /\ \E v \in 1 .. Len(th) : th[v].pc = "mark"
    /\ \E i \in 1 .. Len(base.rec) : hist.prior[i] # 0

\* --------------------------------------------------------------------- C6
IsOneBit(m) == \E k \in 0 .. (MaskBits - 1) : m = 2 ^ k

\* the thread's OR takes place in this step
Ors(t) == th[t].pc = "mark" /\ th'[t].pc = "done"

\* the byte of the thread's set before the step
ByteBefore(t) == base.rec[th[t].index + 1]

\* among the completed marks of one set with one single-bit mask that was
\* clear before the threads started, and that no other mask has set,
\* exactly one returned 1
C6_OneWinner ==
    \A t \in 1 .. Len(th) :
        (/\ th[t].pc = "done" /\ th[t].index >= 0
         /\ IsOneBit(th[t].mask)
         /\ BitAnd(hist.prior[th[t].index + 1], th[t].mask) = 0
         /\ \A u \in 1 .. Len(th) :
               th[u].pc = "done" /\ th[u].set = th[t].set
                   => BitAnd(th[u].mask, th[t].mask) = 0
                          \/ th[u].mask = th[t].mask)
        => Cardinality({u \in 1 .. Len(th) :
                            /\ th[u].pc = "done" /\ th[u].set = th[t].set
                            /\ th[u].mask = th[t].mask /\ th[u].ret = 1}) = 1

\* C6: a mark on an addressed set returns 1 exactly when a bit of its
\* mask was clear in the set's byte just before its OR, else 0; so of the
\* threads marking one set with one single-bit mask that was clear, one
\* and only one returns 1.
C6_Step ==
    /\ \A t \in 1 .. Len(th) : Ors(t) =>
          /\ th'[t].ret \in {0, 1}
          /\ th'[t].ret = 1 <=>
                \E k \in 0 .. (MaskBits - 1) :
                    HasBit(th[t].mask, k) /\ ~HasBit(ByteBefore(t), k)
    /\ C6_OneWinner'

C6_MarkReturnsNewBits == [][C6_Step]_vars

\* three threads have marked one set with NULLIF, which was clear: one
\* returned 1 and two returned 0
C6_Witness ==
    /\ Len(th) >= 3
    /\ \A t \in 1 .. 3 : th[t].pc = "done" /\ th[t].mask = NULLIF
                            /\ th[t].set = th[1].set /\ th[t].ret >= 0
    /\ IsAddressable(base, th[1].set)
    /\ th[1].ret = 0 /\ th[2].ret = 0 /\ th[3].ret = 1

\* --------------------------------------------------------------------- C2
\* the destination after the worker of a one-thread pass has handled the
\* source sets of outs in turn
RECURSIVE passLoop(_, _, _, _)
passLoop(outs, d, size, o) ==
    IF outs = << >> THEN d
    ELSE passLoop(Tail(outs),
                  markAll(d, handleExpand(Head(outs)[1], size, Head(outs)[2],
                                          o)),
                  size, o)

SinglePass(s, d, o) ==
    passLoop(sr_query_parallel(s, NULLIF, NULLIF, 1, 0, TRUE).outs, d,
             s.size, o)

\* C2: once the workers have joined, whatever their number and the order
\* of their steps, handleExpand was called once for each source set that
\* has NULLIF and for no other, every mark it asked for on a set the
\* destination addresses is in the destination, and the destination is
\* the one a pass with one worker makes from the same records.
C2_GenerationPass ==
    call.fn = "generation" /\ call.pc = "joined" =>
        /\ \A s \in AddressableSets(src) :
              Count(hist.visits, s) =
                  IF HasBit(AccOf(hist.srcAcc, s), 0) THEN 1 ELSE 0
        /\ Range(hist.visits) \subseteq AddressableSets(src)
        /\ \A a \in hist.asked : IsAddressable(dest, a[1]) =>
              LET b == dest.rec[markIndex(dest.mval_min, a[1],
                                          dest.varSize) + 1]
              IN  \A k \in 0 .. (MaskBits - 1) :
                      HasBit(a[2], k) => HasBit(b, k)
        /\ dest = SinglePass(src, hist.dest0, opts)

\* three workers have joined after visiting three sets or more and
\* marking a destination that held marks before
C2_Witness ==
    /\ call.fn = "generation" /\ call.pc = "joined"
    /\ opts.threads = 3 /\ Len(hist.visits) >= 3
    /\ dest # hist.dest0
    /\ \E i \in 1 .. Len(hist.dest0.rec) :
          hist.dest0.rec[i] # 0 /\ dest.rec[i] # hist.dest0.rec[i]

\* --------------------------------------------------------------------- C5
IsAscending(x) == \A j \in 1 .. (Len(x) - 1) : x[j] < x[j + 1]

\* the place of a tuple in the order of the record: the sum of
\* C(x[j] - 1, j)
RECURSIVE Rank(_, _)
Rank(x, j) == IF j = 0 THEN 0 ELSE Choose(x[j] - 1, j) + Rank(x, j - 1)

\* C5: indexToSet of the setToIndex of a strictly ascending tuple of
\* positive values is the tuple; setToIndex of the indexToSet of an index
\* is the index; incSetValues by add gives the strictly ascending tuple
\* whose index is add more.
C5_IndexRoundTrip ==
    /\ call.fn = "indexToSet" /\ "of" \in DOMAIN call => call.set = call.of
    /\ call.fn = "setToIndex" /\ "of" \in DOMAIN call => call.index = call.of
    /\ call.fn = "incSetValues" =>
          /\ IsAscending(call.set)
          /\ Len(call.set) = Len(call.of)
          /\ Rank(call.set, Len(call.set))
                = Rank(call.of, Len(call.of)) + call.add

\* C5 on the tuples of up to MaxSize values: the three statements with the
\* tuples of twenty values left out of the first
C5_NarrowRoundTrip ==
    (call.fn = "indexToSet" /\ "of" \in DOMAIN call /\ call.of \in WideSets)
        \/ C5_IndexRoundTrip

\* a tuple whose binomials all fit 64 bits and that indexToSet does not
\* give back
C5_Witness ==
    /\ call.fn = "indexToSet" /\ "of" \in DOMAIN call
    /\ call.of \in WideSets
    /\ call.set # call.of

\* -------------------------------------------------------------------- C10
\* s is made from the values of s2 by putting one value in the place of
\* two of them, a < b: their sum, product, difference or exact quotient
Reduces(s2, s) ==
    \E a \in s2, b \in s2 :
        /\ a < b
        /\ \E v \in {a + b, a * b, b - a}
                      \cup (IF b % a = 0 THEN {b \div a} ELSE {}) :
              s = (s2 \ {a, b}) \cup {v}

\* C10: expand() with the three modes and maximum M, on a strictly
\* ascending set s of values in 1 .. M, outputs every strictly ascending
\* set of one more value, all in 1 .. M, from which s is made by putting
\* one of a + b, a * b, b - a, b / a in the place of two values a < b.
C10_ExpandComplete ==
    (/\ call.fn = "expand" /\ call.pc = "returned"
     /\ call.mode = 7 /\ call.set[Len(call.set)] <= call.max)
    => /\ call.ret = 0
       /\ \A c \in Combos(Len(call.set) + 1, call.max) :
             Reduces(Range(c), Range(call.set))
                 /\ Cardinality(Range(call.set)) = Len(call.set)
             => c \in Range(call.outs)

\* (2, 3) expanded to 8: among the sets output are one from a quotient
\* (8 / 4), from differences (8 - 6, 4 - 1) and a superset
C10_Witness ==
    /\ call.fn = "expand" /\ call.pc = "returned" /\ call.mode = 7
    /\ call.set = <<2, 3>> /\ call.max = 8
    /\ {<<3, 4, 8>>, <<3, 6, 8>>, <<1, 2, 4>>, <<2, 3, 7>>}
          \subseteq Range(call.outs)

\* ------------------------------------------------------------- supersets
\* supers() is called with a set of values up to maxM and an M-range
InitSupers ==
    /\ \E size \in 1 .. MaxSize, maxM \in 1 .. ExpandMax :
          \E set \in Combos(size, maxM), minM \in 1 .. (maxM + 1) :
            call = [fn |-> "supers", pc |-> "called", set |-> set,
                    minM |-> minM, maxM |-> maxM]
    /\ base = << >> /\ ncalls = 0 /\ hist = << >>
    /\ NoGen /\ NoThreads

Supers ==
    /\ call.fn = "supers" /\ call.pc = "called"
    /\ call' = [fn |-> "supers", pc |-> "returned", set |-> call.set,
                minM |-> call.minM, maxM |-> call.maxM,
                outs |-> supers(call.set, Len(call.set), call.minM,
                                call.maxM)]
    /\ UNCHANGED <<base, ncalls, hist, genVars, th>>

NextSupers == Supers

SpecSupers == InitSupers /\ [][NextSupers]_vars

\* -------------------------------------------------------------------- C11
\* the values supers() is to insert
InsertValues(set, minM, maxM) ==
    (IF set[Len(set)] < minM THEN minM .. maxM ELSE 1 .. maxM) \ Range(set)

\* C11: supers() on s with the bounds (minM, maxM) outputs, each once, the
\* sets s with one more value x out of 1 .. maxM whose highest value is in
\* minM .. maxM; x ranges over minM .. maxM when the highest value of s is
\* below minM and over 1 .. maxM otherwise.
C11_SupersInRange ==
    (call.fn = "supers" /\ call.pc = "returned") =>
        LET s == Range(call.set)
            k == Len(call.set) + 1
            outs == Range(call.outs)
        IN  /\ Cardinality(outs) = Len(call.outs)
            /\ outs = {c \in Combos(k, call.maxM) :
                          /\ s \subseteq Range(c)
                          /\ c[k] >= call.minM}
            /\ {Range(c) : c \in outs}
                  = {s \cup {x} :
                        x \in InsertValues(call.set, call.minM, call.maxM)}
            /\ (call.set = <<2, 4>> /\ call.minM = 1 /\ call.maxM = 6) =>
                    outs = {<<1, 2, 4>>, <<2, 3, 4>>, <<2, 4, 5>>,
                            <<2, 4, 6>>}

\* (2, 4) with the bounds (5, 6): the two sets with the value put last
C11_Witness ==
    /\ call.fn = "supers" /\ call.pc = "returned"
    /\ call.set = <<2, 4>> /\ call.minM = 5 /\ call.maxM = 6
    /\ call.outs = << <<2, 4, 5>>, <<2, 4, 6>> >>

\* ------------------------------------------------- exhaustive test (nulTest)
\* Return values: 0 nullifiable, 1 innullifiable.  calloc is taken to
\* succeed; the values stay far below the width of unsigned int.
RECURSIVE recursiveTest(_, _)
RECURSIVE tryReplacements(_, _, _, _)
RECURSIVE nulPairLoop(_, _, _, _)
RECURSIVE othersLoop(_, _, _, _, _)

\* a triplet test that tries the products only
nulTestTriplet_mulOnly(set) ==
    LET a == set[1]
        b == set[2]
        c == set[3]
    IN  IF a = b \/ b = c \/ c = a THEN 0
        ELSE IF a * b = c THEN 0
        ELSE IF b * c = a THEN 0
        ELSE IF c * a = b THEN 0
        ELSE 1

\* a triplet test that tries the additive operations only
nulTestTriplet_addOnly(set) ==
    LET a == set[1]
        b == set[2]
        c == set[3]
    IN  IF a = b \/ b = c \/ c = a THEN 0
        ELSE IF a + b = c THEN 0
        ELSE IF b + c = a THEN 0
        ELSE IF c + a = b THEN 0
        ELSE 1

nulTestTriplet(set) ==
    LET a == set[1]
        b == set[2]
        c == set[3]
    IN  IF a = b \/ b = c \/ c = a THEN 0
        ELSE IF a + b = c THEN 0
        ELSE IF b + c = a THEN 0
        ELSE IF c + a = b THEN 0
        ELSE IF a * b = c THEN 0
        ELSE IF b * c = a THEN 0
        ELSE IF c * a = b THEN 0
        ELSE 1

\* recursiveTest(): the scan of every pair for equality
nulEqualScan(set, size) ==
    \E pairA \in 1 .. size : \E pairB \in (pairA + 1) .. size :
        set[pairA] = set[pairB]

\* recursiveTest(): the values other than the pair's, in their order, as
\* they are copied to newSet[1 ..]; i is the C index
othersLoop(set, size, pairA, pairB, i) ==
    IF i >= size THEN << >>
    ELSE IF i = pairA \/ i = pairB
    THEN othersLoop(set, size, pairA, pairB, i + 1)
    ELSE <<set[i + 1]>> \o othersLoop(set, size, pairA, pairB, i + 1)

\* recursiveTest(): the replacement values of a pair; 0 is an empty cell
nulReplacements(a, b) ==
    <<IF a > b THEN a - b ELSE b - a,
      a + b,
      IF a % b = 0 THEN a \div b ELSE IF b % a = 0 THEN b \div a ELSE 0,
      a * b>>

\* recursiveTest(): the loop over the replacement values from cell i on
tryReplacements(rest, replacements, i, size) ==
    IF i >= 4 THEN 1
    ELSE IF replacements[i + 1] = 0
    THEN tryReplacements(rest, replacements, i + 1, size)
    ELSE LET res == recursiveTest(<<replacements[i + 1]>> \o rest, size - 1)
         IN  IF res # 1 THEN res
             ELSE tryReplacements(rest, replacements, i + 1, size)

\* recursiveTest(): the loop over the pairs from (pairA, pairB) on
\* (C indices)
nulPairLoop(set, size, pairA, pairB) ==
    IF pairA >= size THEN 1
    ELSE IF pairB >= size THEN nulPairLoop(set, size, pairA + 1, pairA + 2)
    ELSE LET res == tryReplacements(
                        othersLoop(set, size, pairA, pairB, 0),
                        nulReplacements(set[pairA + 1], set[pairB + 1]),
                        0, size)
         IN  IF res # 1 THEN res
             ELSE nulPairLoop(set, size, pairA, pairB + 1)

recursiveTest(set, size) ==
    IF size = 3 THEN nulTestTriplet(set)
    ELSE IF nulEqualScan(set, size) THEN 0
    ELSE nulPairLoop(set, size, 0, 1)

\* a test of one value with the sense of the comparison turned
nulTest_singleTurned(set, size) ==
    IF size = 0 THEN 1
    ELSE IF size = 1 THEN (IF set[1] = 0 THEN 1 ELSE 0)
    ELSE IF size = 2 THEN (IF set[1] # set[2] THEN 1 ELSE 0)
    ELSE IF \E i \in 1 .. size : set[i] = 0 THEN 0
    ELSE recursiveTest(set, size)

nulTest(set, size) ==
    IF size = 0 THEN 1
    ELSE IF size = 1 THEN (IF set[1] # 0 THEN 1 ELSE 0)
    ELSE IF size = 2 THEN (IF set[1] # set[2] THEN 1 ELSE 0)
    ELSE IF \E i \in 1 .. size : set[i] = 0 THEN 0
    ELSE recursiveTest(set, size)

\* non-descending tuples of k values out of 1 .. m
RECURSIVE MultiCombos(_, _)
MultiCombos(k, m) ==
    IF k = 0 THEN {<< >>}
    ELSE IF m = 0 THEN {}
    ELSE MultiCombos(k, m - 1) \cup {Append(c, m) : c \in MultiCombos(k - 1, m)}

RECURSIVE Reverse(_)
Reverse(seq) ==
    IF seq = << >> THEN << >> ELSE Append(Reverse(Tail(seq)), Head(seq))

\* the arrays handed to nulTest: every choice of up to NulSize values out
\* of 1 .. NulMax in rising and in falling order, and a lone zero
NulInputs ==
    LET up == UNION {MultiCombos(k, NulMax) : k \in 0 .. NulSize}
    IN  up \cup {Reverse(x) : x \in up} \cup {<<0>>}

InitNul ==
    /\ \E set \in NulInputs : call = [fn |-> "nulTest", pc |-> "called",
                                      set |-> set]
    /\ base = << >> /\ ncalls = 0 /\ hist = << >>
    /\ NoGen /\ NoThreads

NulTest ==
    /\ call.fn = "nulTest" /\ call.pc = "called"
    /\ call' = [fn |-> "nulTest", pc |-> "returned", set |-> call.set,
                ret |-> nulTest(call.set, Len(call.set))]
    /\ UNCHANGED <<base, ncalls, hist, genVars, th>>

NextNul == NulTest

SpecNul == InitNul /\ [][NextNul]_vars

\* -------------------------------------------------------------------- C12
\* the values x, as a tuple, with those at i and j taken out and v put in
StepTo(x, i, j, v) ==
    <<v>> \o SubSeq(x, 1, i - 1) \o SubSeq(x, i + 1, j - 1)
          \o SubSeq(x, j + 1, Len(x))

\* what may stand in the place of a and b
StepValues(a, b) ==
    {a + b, a * b, IF a > b THEN a - b ELSE b - a}
        \cup (IF b # 0 /\ a % b = 0 THEN {a \div b} ELSE {})
        \cup (IF a # 0 /\ b % a = 0 THEN {b \div a} ELSE {})

\* some sequence of steps from x reaches values two of which are equal
RECURSIVE ReachesEqualPair(_)
ReachesEqualPair(x) ==
    \/ \E i \in 1 .. Len(x) : \E j \in (i + 1) .. Len(x) : x[i] = x[j]
    \/ \E i \in 1 .. Len(x) : \E j \in (i + 1) .. Len(x) :
          \E v \in StepValues(x[i], x[j]) :
              ReachesEqualPair(StepTo(x, i, j, v))

\* C12: on positive integers nulTest returns 0 (nullifiable) exactly when
\* some sequence of steps, each putting a + b, a * b, |a - b| or the exact
\* quotient in the place of two values a, b, reaches values two of which
\* are equal, and 1 otherwise; no values give 1, one value x gives 0
\* exactly when x = 0, two values a, b give 0 exactly when a = b.
C12_NulTestDecides ==
    (call.fn = "nulTest" /\ call.pc = "returned") =>
        LET x == call.set
        IN  /\ call.ret \in {0, 1}
            /\ (\A i \in 1 .. Len(x) : x[i] > 0) =>
                    (call.ret = 0 <=> ReachesEqualPair(x))
            /\ Len(x) = 0 => call.ret = 1
            /\ Len(x) = 1 => (call.ret = 0 <=> x[1] = 0)
            /\ Len(x) = 2 => (call.ret = 0 <=> x[1] = x[2])

\* (1, 4, 6, 8) is innullifiable
C12_Witness ==
    /\ call.fn = "nulTest" /\ call.pc = "returned"
    /\ call.set = <<1, 4, 6, 8>> /\ call.ret = 1

\* ------------------------------------------------- whole generation passes
\* The generation utility run with one worker, once and again, on a
\* source of sets of three values and a destination of sets of four.  The
\* worker's steps are those of the generation pass above.
PassSets == Combos(3, PassMax)

NulSets == {x \in PassSets : nulTest(x, 3) = 0}

\* the sets of the source that hold NULLIF: none, one or all of the
\* nullifiable sets, and with one or none of them a set that is
\* innullifiable
PassMarked ==
    LET few == {{}} \cup {{x} : x \in NulSets}
    IN  few \cup {NulSets} \cup {{<<2, 3, 4>>}, {<<1, 2, 3>>, <<2, 3, 4>>}}

\* the marks that fill the source; withSup: ONLY_SUP stands with every
\* NULLIF
PassSourceMarks(S, withSup) ==
    {<<x, IF withSup THEN MARKED ELSE NULLIF>> : x \in S}

\* a record after sr_mark of every <<set, mask>> of marks, each set with
\* one mask: the byte of a set that is neither refused nor skipped has
\* the mask ORed in
markEach(b, marks) ==
    LET ok == {mk \in marks : /\ ~markInvalid(b, mk[1])
                              /\ ~markSkipped(b, mk[1])}
        at == {<<markIndex(b.mval_min, mk[1], b.varSize) + 1, mk[2]>> :
                  mk \in ok}
    IN  [b EXCEPT !.rec =
            [i \in 1 .. Len(b.rec) |->
                IF \E h \in at : h[1] = i
                THEN BitOr(b.rec[i], (CHOOSE h \in at : h[1] = i)[2])
                ELSE b.rec[i]]]

\* destinations: created from the source (-c), or imported with an
\* M-range of their own and marks of their own
PassDests ==
    {[create |-> TRUE, minm |-> 0, maxm |-> 0, marks |-> {}],
     [create |-> FALSE, minm |-> PassMax, maxm |-> PassMax + 1,
      marks |-> {}],
     [create |-> FALSE, minm |-> 0, maxm |-> PassMax,
      marks |-> {<<<<1, 2, 3, 4>>, ONLY_SUP>>, <<<<1, 2, 4, 5>>, NULLIF>>}]}

\* the phases after the default is applied, optimized or thorough
PassPhases ==
    {[expandSupers |-> ph[1], expandMutate |-> ph[2], expandThorough |-> t] :
        ph \in {<<TRUE, TRUE>>, <<TRUE, FALSE>>, <<FALSE, TRUE>>},
        t \in BOOLEAN}

InitPass ==
    /\ \E S \in PassMarked, withSup \in BOOLEAN, d \in PassDests,
          ph \in PassPhases :
          LET s0 == sr_alloc(sr_initialize(3, 0), 3, 0, PassMax, << >>,
                             TRUE).base
              s1 == markEach(s0, PassSourceMarks(S, withSup))
              d0 == IF d.create
                    THEN sr_alloc(sr_initialize(4, 0), 4, s1.mval_min,
                                  s1.mval_max, << >>, TRUE).base
                    ELSE sr_alloc(sr_initialize(4, 0), 4, d.minm, d.maxm,
                                  << >>, TRUE).base
              d1 == markEach(d0, d.marks)
          IN  /\ src = s1
              /\ dest = d1
              /\ opts = [threads |-> 1,
                         expandSupers |-> ph.expandSupers,
                         expandMutate |-> ph.expandMutate,
                         expandThorough |-> ph.expandThorough,
                         minM |-> d1.mval_min, maxM |-> d1.mval_max]
              /\ hist = [dest0 |-> d1, visits |-> << >>, asked |-> {},
                         srcAcc |-> PassSourceMarks(S, withSup),
                         first |-> << >>]
    /\ th = Starts(1)
    /\ call = [fn |-> "generation", pc |-> "threads", runs |-> 1]
    /\ base = << >>
    /\ ncalls = 0

\* the utility is run again on the same source and on the destination the
\* first run left
Rerun ==
    /\ call.fn = "generation" /\ call.pc = "joined" /\ call.runs = 1
    /\ call' = [fn |-> "generation", pc |-> "threads", runs |-> 2]
    /\ th' = Starts(1)
    /\ hist' = [hist EXCEPT !.first = dest, !.visits = << >>, !.asked = {}]
    /\ UNCHANGED <<base, ncalls, genVars>>

NextPass ==
    \/ NextGen
    \/ Rerun

SpecPass == InitPass /\ [][NextPass]_vars

\* -------------------------------------------------------------------- C13
\* the sets a record addresses whose byte has the bits of mask
SetsWith(b, mask) ==
    {x \in Combos(b.size, b.mval_max) :
        /\ IsAddressable(b, x)
        /\ BitAnd(b.rec[markIndex(b.mval_min, x, b.varSize) + 1], mask)
              = mask}

\* C13: if the exhaustive test calls every set nullifiable that holds
\* NULLIF in the source, then after a generation pass, whatever the phases
\* and thorough or not, it calls every set nullifiable that has gained
\* NULLIF in the destination.
C13_GenerationSound ==
    (/\ call.fn = "generation" /\ call.pc = "joined" /\ call.runs = 1
     /\ \A x \in SetsWith(src, NULLIF) : nulTest(x, Len(x)) = 0)
    => \A x \in SetsWith(dest, NULLIF) \ SetsWith(hist.dest0, NULLIF) :
          nulTest(x, Len(x)) = 0

\* a pass with both phases from a source of nullifiable sets has put
\* NULLIF on a superset and, without ONLY_SUP, on a mutation, and has
\* left a set without it
C13_Witness ==
    /\ call.fn = "generation" /\ call.pc = "joined" /\ call.runs = 1
    /\ opts.expandSupers /\ opts.expandMutate
    /\ SetsWith(src, NULLIF) # {}
    /\ \A x \in SetsWith(src, NULLIF) : nulTest(x, Len(x)) = 0
    /\ \E x \in SetsWith(dest, MARKED) : x \notin SetsWith(hist.dest0, NULLIF)
    /\ \E x \in SetsWith(dest, NULLIF) \ SetsWith(dest, ONLY_SUP) :
          x \notin SetsWith(hist.dest0, NULLIF)
    /\ SetsWith(dest, 0) # SetsWith(dest, NULLIF)

\* ------------------------------------------------------------------- weed
\* the tester weed.c calls with the M-range of the initial reduction; with
\* the range left at 0, 0 it is the unconditional tester
nulTestRanged(set, size, minm, maxm) == nulTest(set, size)

\* a testElim() that counts every set it is given
testElim_countAlways(rec, passedCount, set, size, minm, maxm) ==
    LET res == nulTestRanged(set, size, minm, maxm)
    IN  IF res = 0
        THEN [rec |-> sr_mark(rec, set, NULLIF).base,
              passedCount |-> passedCount + 1]
        ELSE [rec |-> rec, passedCount |-> passedCount + 1]

\* testElim(): the record and the counter after the test of one set
testElim(rec, passedCount, set, size, minm, maxm) ==
    LET res == nulTestRanged(set, size, minm, maxm)
    IN  IF res = 0
        THEN [rec |-> sr_mark(rec, set, NULLIF).base,
              passedCount |-> passedCount]
        ELSE [rec |-> rec, passedCount |-> passedCount + 1]

\* the records weeded: size, M-range and the marks they hold
WeedRecords ==
    {[size |-> 3, minm |-> 0, maxm |-> WeedMax, marks |-> << >>],
     [size |-> 3, minm |-> 0, maxm |-> WeedMax,
      marks |-> << <<<<1, 2, 3>>, NULLIF>>, <<<<1, 4, 6>>, MARKED>>,
                   <<<<2, 3, 6>>, ONLY_SUP>>, <<<<3, 4, 6>>, ONLY_SUP>>,
                   <<<<2, 4, 5>>, NULLIF>> >>],
     [size |-> 3, minm |-> WeedMax - 1, maxm |-> WeedMax,
      marks |-> << <<<<1, 5, 6>>, MARKED>> >>],
     [size |-> 2, minm |-> 0, maxm |-> WeedMax - 2,
      marks |-> << <<<<1, 3>>, NULLIF>> >>]}

InitWeed ==
    /\ \E r \in WeedRecords, threads \in 1 .. MaxThreads :
          LET r0 == sr_alloc(sr_initialize(r.size, 0), r.size, r.minm,
                             r.maxm, << >>, TRUE).base
              r1 == markAll(r0, r.marks)
          IN  /\ src = r1
              /\ opts = [threads |-> threads, minm |-> 0, maxm |-> 0]
              /\ th = Starts(threads)
              /\ hist = [rec0 |-> r1,
                         tested |-> [x \in SetsWith(r1, 0) |-> 0]]
    /\ dest = << >>
    /\ call = [fn |-> "weed", pc |-> "threads", passedCount |-> 0]
    /\ base = << >>
    /\ ncalls = 0

\* threadOp() of weed up to the loop of query()
WeedEnter(t) ==
    /\ call.fn = "weed"
    /\ th[t].pc = "start"
    /\ LET q == queryEnter(src, t - 1, opts.threads)
       IN  th' = [th EXCEPT ![t] =
                    [pc |-> "scan", i |-> q.i, skip |-> q.skip,
                     total |-> q.total, values |-> q.values,
                     todo |-> << >>]]
    /\ UNCHANGED <<recVars, genVars>>

\* one pass of the loop of query() up to the call of testElim(): the end
\* of the loop, a set with NULLIF, or a set without
WeedScan(t) ==
    /\ call.fn = "weed"
    /\ th[t].pc = "scan"
    /\ LET w == th[t]
       IN  IF w.i >= w.total
           THEN th' = [th EXCEPT ![t] = [pc |-> "done"]]
           ELSE IF ~match(src.rec[w.i + 1], NULLIF, 0)
                THEN th' = [th EXCEPT ![t] = Advanced(w)]
                ELSE th' = [th EXCEPT ![t] = [w EXCEPT !.pc = "test"]]
    /\ UNCHANGED <<recVars, genVars>>

\* testElim() on the set the loop has output
WeedTest(t) ==
    /\ call.fn = "weed"
    /\ th[t].pc = "test"
    /\ LET w == th[t]
           r == testElim(src, call.passedCount, w.values, src.size,
                         opts.minm, opts.maxm)
       IN  /\ src' = r.rec
           /\ call' = [call EXCEPT !.passedCount = r.passedCount]
           /\ hist' = [hist EXCEPT !.tested[w.values] = @ + 1]
           /\ th' = [th EXCEPT ![t] = Advanced(w)]
    /\ UNCHANGED <<base, ncalls, dest, opts>>

\* main() of weed: the joins
WeedJoin ==
    /\ call.fn = "weed" /\ call.pc = "threads"
    /\ \A t \in 1 .. Len(th) : th[t].pc = "done"
    /\ call' = [call EXCEPT !.pc = "joined"]
    /\ UNCHANGED <<base, ncalls, hist, genVars, th>>

NextWeed ==
    \/ \E t \in 1 .. Len(th) : WeedEnter(t)
    \/ \E t \in 1 .. Len(th) : WeedScan(t)
    \/ \E t \in 1 .. Len(th) : WeedTest(t)
    \/ WeedJoin

SpecWeed == InitWeed /\ [][NextWeed]_vars

\* -------------------------------------------------------------------- C14
\* the byte a record holds for a set
ByteOf(b, x) == b.rec[markIndex(b.mval_min, x, b.varSize) + 1]

\* C14: after the workers of a weed pass have joined, every set that had
\* NULLIF clear at the start has been tested exactly once and no other set
\* has been tested; a set has NULLIF clear iff it had NULLIF clear at the
\* start and the tester does not call it nullifiable; the byte of a set
\* that had NULLIF is the byte it was; passedCount is the number of sets
\* with NULLIF clear.
C14_WeedPass ==
    (call.fn = "weed" /\ call.pc = "joined")
    => LET all == SetsWith(hist.rec0, 0)
           unmarked == all \ SetsWith(hist.rec0, NULLIF)
       IN  /\ \A x \in all :
                 hist.tested[x] = IF x \in unmarked THEN 1 ELSE 0
           /\ \A x \in all :
                 BitAnd(ByteOf(src, x), NULLIF) = 0
                    <=> (x \in unmarked /\ nulTest(x, Len(x)) # 0)
           /\ \A x \in all \ unmarked :
                 ByteOf(src, x) = ByteOf(hist.rec0, x)
           /\ call.passedCount
                 = Cardinality(all \ SetsWith(src, NULLIF))

\* several workers have weeded a record that held marks: a set was marked
\* by the pass, a set passed, and a set that held ONLY_SUP alone was
\* tested
C14_Witness ==
    /\ call.fn = "weed" /\ call.pc = "joined"
    /\ opts.threads > 1
    /\ SetsWith(hist.rec0, NULLIF) # {}
    /\ SetsWith(src, NULLIF) # SetsWith(hist.rec0, NULLIF)
    /\ call.passedCount > 0
    /\ \E x \in SetsWith(hist.rec0, ONLY_SUP) \ SetsWith(hist.rec0, NULLIF) :
          hist.tested[x] = 1

\* ------------------------------------------------------------ end to end
\* the sets of EndSize - 1 values in which two values give the third by
\* one operation: the expansions of an equal pair (n, n) by an equivalent
\* pair of n
TrivialSets ==
    {x \in Combos(EndSize - 1, EndMax) :
        \E i, j, k \in 1 .. EndSize - 1 :
            /\ i < j /\ k # i /\ k # j
            /\ (x[i] + x[j] = x[k] \/ x[i] * x[j] = x[k])}

\* what the first record holds: nothing, or NULLIF on the trivial sets
EndSeeds == {{}, PassSourceMarks(TrivialSets, FALSE)}

\* create, then generation -c with both phases, optimized or thorough
InitEnd ==
    /\ \E seed \in EndSeeds, t \in BOOLEAN :
          LET s0 == sr_alloc(sr_initialize(EndSize - 1, 0), EndSize - 1, 0,
                             EndMax, << >>, TRUE).base
              s1 == markEach(s0, seed)
              d1 == sr_alloc(sr_initialize(EndSize, 0), EndSize,
                             s1.mval_min, s1.mval_max, << >>, TRUE).base
          IN  /\ src = s1
              /\ dest = d1
              /\ opts = [threads |-> 1, expandSupers |-> TRUE,
                         expandMutate |-> TRUE, expandThorough |-> t,
                         minM |-> d1.mval_min, maxM |-> d1.mval_max]
              /\ hist = [dest0 |-> d1, visits |-> << >>, asked |-> {},
                         srcAcc |-> seed]
    /\ th = Starts(1)
    /\ call = [fn |-> "generation", pc |-> "threads"]
    /\ base = << >>
    /\ ncalls = 0

\* weed is run on the record generation has exported
StartWeed ==
    /\ call.fn = "generation" /\ call.pc = "joined"
    /\ src' = dest
    /\ dest' = << >>
    /\ opts' = [threads |-> 1, minm |-> 0, maxm |-> 0]
    /\ th' = Starts(1)
    /\ hist' = [rec0 |-> dest, tested |-> [x \in SetsWith(dest, 0) |-> 0],
                seeded |-> hist.srcAcc # {}]
    /\ call' = [fn |-> "weed", pc |-> "threads", passedCount |-> 0]
    /\ UNCHANGED <<base, ncalls>>

NextEnd ==
    \/ call.fn = "generation" /\ NextGen
    \/ StartWeed
    \/ NextWeed

SpecEnd == InitEnd /\ [][NextEnd]_vars

\* -------------------------------------------------------------------- C15
\* the sets without NULLIF when the pipeline has ended
EndUnmarked == SetsWith(src, 0) \ SetsWith(src, NULLIF)

\* the ten sets of the header of main.c
TenSets ==
    {<<1, 4, 6, 8>>, <<1, 4, 6, 9>>, <<1, 5, 7, 9>>, <<3, 6, 7, 8>>,
     <<3, 7, 8, 9>>, <<4, 5, 6, 8>>, <<4, 6, 7, 8>>, <<4, 6, 8, 9>>,
     <<5, 6, 7, 9>>, <<5, 7, 8, 9>>}

TenSetsTested ==
    (TenSets \ {<<1, 4, 6, 9>>}) \cup {<<1, 4, 7, 9>>}

C16_GenerationIdempotent ==
    (/\ call.fn = "generation" /\ "runs" \in DOMAIN call /\ call.runs = 2
     /\ opts.expandSupers /\ opts.expandMutate /\ opts.expandThorough)
    => dest = hist.first

\* a second thorough run with both phases has joined after it expanded
\* source sets, on a destination the first run had marked
C16_Witness ==
    /\ call.fn = "generation" /\ "runs" \in DOMAIN call /\ call.runs = 2
    /\ call.pc = "joined"
    /\ opts.expandSupers /\ opts.expandMutate /\ opts.expandThorough
    /\ hist.visits # << >> /\ hist.asked # {}
    /\ hist.first # hist.dest0
    /\ dest = hist.first

\* ------------------------------------------------- allocating again
\* a record is allocated, marked and allocated again, with a calloc that
\* returns an array or NULL
InitAlloc ==
    /\ \E size \in 1 .. MaxSize, junk \in Junk :
            base = sr_initialize(size, junk)
    /\ call = [fn |-> "sr_initialize"]
    /\ ncalls = 0
    /\ hist = [prev |-> << >>]
    /\ NoGen /\ NoThreads

AllocAgain(varSize, minm, maxm, fixedv, callocOk) ==
    /\ call.fn \in {"sr_initialize", "sr_alloc", "sr_mark"}
    /\ "prev" \in DOMAIN hist
    /\ ncalls < AllocCalls
    /\ LET r == sr_alloc(base, varSize, minm, maxm, fixedv, callocOk)
       IN  /\ base' = r.base
           /\ call' = [fn |-> "sr_alloc", ret |-> r.ret, errno |-> r.errno]
    /\ hist' = [prev |-> base]
    /\ ncalls' = ncalls + 1
    /\ UNCHANGED <<genVars, th>>

\* a mark on a record whose last allocation has succeeded
AllocMark(set, mask) ==
    /\ call.fn \in {"sr_alloc", "sr_mark"}
    /\ "prev" \in DOMAIN hist
    /\ ncalls < AllocCalls
    /\ call.fn = "sr_alloc" => call.ret = 0
    /\ LET r == sr_mark(base, set, mask)
       IN  /\ base' = r.base
           /\ call' = [fn |-> "sr_mark", ret |-> r.ret]
    /\ hist' = [prev |-> base]
    /\ ncalls' = ncalls + 1
    /\ UNCHANGED <<genVars, th>>

NextAlloc ==
    \/ \E varSize \in 1 .. MaxSize, minm \in MinMInputs, maxm \in MaxMInputs,
          fixedv \in FixedInputs, callocOk \in BOOLEAN :
            AllocAgain(varSize, minm, maxm, fixedv, callocOk)
    \/ \E set \in MarkInputs(base.size), mask \in {NULLIF, MARKED} :
            AllocMark(set, mask)

SpecAlloc == InitAlloc /\ [][NextAlloc]_vars

\* -------------------------------------------------------------------- C17
\* the last call was sr_alloc on a record with a history
AllocCalled == call.fn = "sr_alloc" /\ "prev" \in DOMAIN hist

\* C17: when sr_alloc has failed, on its validation or on the memory
\* allocation, the record is as it was before the call, structure and
\* array; when it has succeeded the array is a zeroed array of length T.
C17_AllocFailurePreserves ==
    AllocCalled
    => IF call.ret # 0 THEN base = hist.prev
       ELSE /\ ~base.isNull
            /\ base.rec = Zeros(TOTAL_B(base))

\* what holds of sr_alloc: a failed validation leaves the record as it
\* was, a failed calloc leaves the array and the size as they were, and a
\* success leaves a zeroed array of length T
C17_AllocValidationPreserves ==
    AllocCalled
    => /\ (call.ret # 0 /\ call.errno = EINVAL) => base = hist.prev
       /\ (call.ret # 0 /\ call.errno # EINVAL)
             => /\ base.rec = hist.prev.rec
                /\ base.isNull = hist.prev.isNull
                /\ base.size = hist.prev.size
       /\ call.ret = 0 => /\ ~base.isNull
                          /\ base.rec = Zeros(TOTAL_B(base))

\* sr_alloc has failed on calloc on a record that held marks: the M-range
\* is the new one and the array, of another length, the old one
C17_Witness ==
    /\ AllocCalled
    /\ call.ret # 0 /\ call.errno # EINVAL
    /\ \E i \in 1 .. Len(hist.prev.rec) : hist.prev.rec[i] # 0
    /\ base.rec = hist.prev.rec
    /\ base.mval_max # hist.prev.mval_max
    /\ TOTAL_B(base) # Len(base.rec)

\* ------------------------------------------------------ export and import
\* fprintf with %lu: the decimal digits of a number
RECURSIVE Digits(_)
Digits(n) == IF n < 10 THEN <<n>> ELSE Append(Digits(n \div 10), n % 10)

\* a conversion that reads the first digit only
ParseDigits_first(ds) == ds[1]

\* fscanf with %lu: the number of a run of decimal digits
RECURSIVE ParseDigits(_)
ParseDigits(ds) ==
    IF Len(ds) = 1 THEN ds[1]
    ELSE 10 * ParseDigits(SubSeq(ds, 1, Len(ds) - 1)) + ds[Len(ds)]

\* sr_export with a file that takes every write: the three header lines
\* and the array one block into the file
sr_export(b) ==
    [ret |-> 0,
     file |-> [full |-> Digits(b.size),
               var |-> <<Digits(b.varSize), Digits(b.mval_min),
                         Digits(b.mval_max)>>,
               fixed |-> <<Digits(b.fixedSize), Digits(b.fixedv[1]),
                           Digits(b.fixedv[2]), Digits(b.fixedv[3]),
                           Digits(b.fixedv[4])>>,
               data |-> SubSeq(b.rec, 1, TOTAL_B(b))]]

\* sr_import from a file that holds the three header lines: return value
\* and the structure afterwards
sr_import(b, file) ==
    LET size == ParseDigits(file.full)
        varSize == ParseDigits(file.var[1])
        minm == ParseDigits(file.var[2])
        maxm == ParseDigits(file.var[3])
        fixedSize == ParseDigits(file.fixed[1])
        fixed == [i \in 1 .. FIXED_MAX |-> ParseDigits(file.fixed[i + 1])]
    IN  IF size # b.size THEN [ret |-> -2, base |-> b]
        ELSE IF fixedSize > FIXED_MAX THEN [ret |-> -3, base |-> b]
        ELSE LET a == sr_alloc(b, varSize, minm, maxm,
                               SubSeq(fixed, 1, fixedSize), TRUE)
                 total == TOTAL_B(a.base)
             IN  IF a.ret = -1
                 THEN [ret |-> IF a.errno = EINVAL THEN -3 ELSE -1,
                       base |-> a.base]
                 ELSE IF Len(file.data) < total
                 THEN [ret |-> -3,
                       base |-> [a.base EXCEPT !.rec =
                                    file.data \o Zeros(total - Len(file.data))]]
                 ELSE [ret |-> 0,
                       base |-> [a.base EXCEPT !.rec =
                                    SubSeq(file.data, 1, total)]]

\* the allocations of the records exported: full size, variable size,
\* M-range and fixed values
FileAllocs ==
    {<<1, 1, 0, FileMax, << >> >>,
     <<2, 1, 0, MaxVal, <<FileMax - 1>> >>,
     <<2, 2, 3, MaxVal + 1, << >> >>,
     <<3, 2, 0, MaxVal, <<FileMax - 2>> >>,
     <<3, 3, 0, MaxVal + 1, << >> >>,
     <<3, 1, 2, 3, <<FileMax, FileMax + 8>> >>,
     <<3, 3, MaxVal + 2, 0, << >> >>}

\* what malloc may have left in the fixedv cells of the importing record
ImportJunk == {0, FileMax + 1}

InitFile ==
    /\ \E a \in FileAllocs :
          base = sr_alloc(sr_initialize(a[1], 0), a[2], a[3], a[4], a[5],
                          TRUE).base
    /\ call = [fn |-> "sr_alloc", ret |-> 0]
    /\ ncalls = 0
    /\ hist = [file |-> << >>]
    /\ NoGen /\ NoThreads

\* the values of the fixed segment of a record
FixedOf(b) == SubSeq(b.fixedv, 1, b.fixedSize)

\* the sets a record addresses, fixed segment included
FileSets(b) ==
    {v \o FixedOf(b) : v \in {c \in Combos(b.varSize, b.mval_max) :
                                  c[b.varSize] >= b.mval_min}}

\* a mark on a set the record addresses
FileMark(set, mask) ==
    /\ call.fn \in {"sr_alloc", "sr_mark"}
    /\ "file" \in DOMAIN hist
    /\ ncalls < FileMarks
    /\ base' = sr_mark(base, set, mask).base
    /\ call' = [fn |-> "sr_mark", ret |-> sr_mark(base, set, mask).ret]
    /\ ncalls' = ncalls + 1
    /\ UNCHANGED <<hist, genVars, th>>

FileExport ==
    /\ call.fn \in {"sr_alloc", "sr_mark"}
    /\ "file" \in DOMAIN hist
    /\ LET r == sr_export(base)
       IN  /\ call' = [fn |-> "sr_export", ret |-> r.ret]
           /\ hist' = [file |-> r.file]
    /\ UNCHANGED <<base, ncalls, genVars, th>>

\* the file is imported into a record that was just initialized
FileImport(size, junk) ==
    /\ call.fn = "sr_export"
    /\ LET r == sr_import(sr_initialize(size, junk), hist.file)
       IN  call' = [fn |-> "sr_import", ret |-> r.ret, into |-> r.base,
                    size |-> size]
    /\ UNCHANGED <<base, ncalls, hist, genVars, th>>

NextFile ==
    \/ \E set \in FileSets(base), mask \in Masks : FileMark(set, mask)
    \/ FileExport
    \/ \E size \in 1 .. MaxSize, junk \in ImportJunk : FileImport(size, junk)

SpecFile == InitFile /\ [][NextFile]_vars

\* -------------------------------------------------------------------- C18
\* C18: a record that was allocated and marked, exported and imported
\* into a record initialized with the same size, gives a record with the
\* same bytes and the same size, variable size, M-range and fixed values;
\* imported into a record initialized with another size, sr_import
\* returns -2.
C18_ExportImportRoundTrip ==
    call.fn = "sr_import"
    => IF call.size = base.size
       THEN /\ call.ret = 0
            /\ ~call.into.isNull
            /\ call.into.rec = base.rec
            /\ call.into.size = base.size
            /\ call.into.varSize = base.varSize
            /\ call.into.mval_min = base.mval_min
            /\ call.into.mval_max = base.mval_max
            /\ call.into.fixedSize = base.fixedSize
            /\ FixedOf(call.into) = FixedOf(base)
       ELSE call.ret = -2 /\ call.into.isNull

\* a record with two fixed values of two digits and a marked byte has
\* come back through a file
C18_Witness ==
    /\ call.fn = "sr_import" /\ call.ret = 0
    /\ base.fixedSize = 2 /\ base.fixedv[2] >= 10
    /\ \E i \in 1 .. Len(base.rec) : base.rec[i] # 0
    /\ call.into.rec = base.rec
    /\ call.into.fixedv # base.fixedv

\* -------------------------------------------------------------- safeExit
\* the threads of a utility: the workers, then the thread that takes the
\* signals, then main
ExitWorkers == 1 .. opts.threads
ExitSignal == opts.threads + 1
ExitMain == opts.threads + 2

\* a lock that every caller passes
pthread_mutex_lock_open(lock, t) == [got |-> TRUE, lock |-> t]

\* pthread_mutex_lock on a mutex that is never unlocked: the caller owns
\* it if it was free and waits otherwise; 0 is a free mutex
pthread_mutex_lock(lock, t) ==
    IF lock = 0 THEN [got |-> TRUE, lock |-> t]
    ELSE [got |-> FALSE, lock |-> lock]

InitExit ==
    /\ \E threads \in 1 .. MaxThreads, intProg \in BOOLEAN :
          /\ opts = [threads |-> threads, intProg |-> intProg]
          /\ th = [t \in 1 .. threads + 2 |-> [pc |-> "run"]]
    /\ call = [fn |-> "safeExit", exitLock |-> 0, exited |-> FALSE]
    /\ hist = [entered |-> {}, exits |-> << >>, sigint |-> FALSE]
    /\ src = << >> /\ dest = << >>
    /\ base = << >>
    /\ ncalls = 0

Running == call.fn = "safeExit" /\ ~call.exited

\* the thread enters safeExit from the place given, in the handler of the
\* signal given if any
EnterSafeExit(t, via, signo) ==
    /\ th' = [th EXCEPT ![t] = [pc |-> "lock"]]
    /\ hist' = [hist EXCEPT !.entered = @ \cup {t},
                            !.sigint = @ \/ signo = "SIGINT"]
    /\ UNCHANGED <<base, call, ncalls, src, dest, opts>>

\* CK_RES / CK_NO / CK_PTR: a worker's query or mark, or a call of main,
\* has failed
Fault(t) ==
    /\ Running
    /\ t \in ExitWorkers \cup {ExitMain}
    /\ th[t].pc = "run"
    /\ EnterSafeExit(t, "FAULT", "none")

\* progHandler() on SIGUSR1, which only the signal thread has unblocked:
\* pushProg has failed (FAULT) or openExport has (CK_IFACE_FN)
ProgressFault(via) ==
    /\ Running
    /\ th[ExitSignal].pc = "run"
    /\ EnterSafeExit(ExitSignal, via, "SIGUSR1")

\* intHandler() on SIGINT, which no thread has blocked: in a thread that
\* runs, or that waits for the exit lock already; with -i progHandler()
\* is called first and may fail
Interrupt(t, via) ==
    /\ Running
    /\ th[t].pc \in {"run", "lock"}
    /\ via = "intHandler" \/ opts.intProg
    /\ EnterSafeExit(t, via, "SIGINT")

\* intHandler() in the thread that owns the exit lock: locking again a
\* mutex of the default type that the caller owns is undefined; the thread
\* waits for the lock it holds, or the call returns and the thread goes on
\* to exit(1)
InterruptOwner(t) ==
    /\ Running
    /\ th[t].pc = "exit"
    /\ LET l == pthread_mutex_lock(call.exitLock, t)
       IN  /\ \E pc \in IF l.got THEN {"exit"} ELSE {"exit", "relock"} :
                 th' = [th EXCEPT ![t] = [pc |-> pc]]
           /\ call' = [call EXCEPT !.exitLock = l.lock]
    /\ hist' = [hist EXCEPT !.entered = @ \cup {t}, !.sigint = TRUE]
    /\ UNCHANGED <<base, ncalls, src, dest, opts>>

\* safeExit(): pthread_mutex_lock(&exitLock) returns
PassLock(t) ==
    /\ Running
    /\ th[t].pc = "lock"
    /\ LET l == pthread_mutex_lock(call.exitLock, t)
       IN  /\ l.got
           /\ call' = [call EXCEPT !.exitLock = l.lock]
    /\ th' = [th EXCEPT ![t] = [pc |-> "exit"]]
    /\ UNCHANGED <<base, ncalls, hist, src, dest, opts>>

\* safeExit(): exit(1)
Exit(t) ==
    /\ Running
    /\ th[t].pc = "exit"
    /\ call' = [call EXCEPT !.exited = TRUE]
    /\ hist' = [hist EXCEPT !.exits = Append(@, <<t, "safeExit">>)]
    /\ UNCHANGED <<base, ncalls, src, dest, opts, th>>

\* threadOp() returns
WorkerReturn(t) ==
    /\ Running
    /\ t \in ExitWorkers
    /\ th[t].pc = "run"
    /\ th' = [th EXCEPT ![t] = [pc |-> "done"]]
    /\ UNCHANGED <<base, call, ncalls, hist, src, dest, opts>>

\* main(): the workers are joined, the signal thread is cancelled where
\* it waits in pause(), and main returns
MainReturn ==
    /\ Running
    /\ th[ExitMain].pc = "run"
    /\ \A t \in ExitWorkers : th[t].pc = "done"
    /\ call' = [call EXCEPT !.exited = TRUE]
    /\ th' = [th EXCEPT ![ExitMain] = [pc |-> "returned"],
                        ![ExitSignal] = IF th[ExitSignal].pc = "run"
                                        THEN [pc |-> "cancelled"]
                                        ELSE th[ExitSignal]]
    /\ hist' = [hist EXCEPT !.exits = Append(@, <<ExitMain, "return">>)]
    /\ UNCHANGED <<base, ncalls, src, dest, opts>>

NextExit ==
    \/ \E t \in 1 .. Len(th) : Fault(t)
    \/ \E via \in {"FAULT", "CK_IFACE_FN"} : ProgressFault(via)
    \/ \E t \in 1 .. Len(th), via \in {"intHandler", "FAULT", "CK_IFACE_FN"} :
          Interrupt(t, via)
    \/ \E t \in 1 .. Len(th) : InterruptOwner(t)
    \/ \E t \in 1 .. Len(th) : PassLock(t)
    \/ \E t \in 1 .. Len(th) : Exit(t)
    \/ \E t \in 1 .. Len(th) : WorkerReturn(t)
    \/ MainReturn

SpecExit == InitExit /\ [][NextExit]_vars

\* -------------------------------------------------------------------- C19
\* the threads that have got past the exit lock
PastLock == {t \in 1 .. Len(th) : th[t].pc \in {"exit", "relock"}}

\* the threads that have left their work on a fault or an interrupt
LeftOnFault == {t \in 1 .. Len(th) : th[t].pc \in {"lock", "exit", "relock"}}

C19_State ==
    call.fn = "safeExit"
    => /\ Cardinality(PastLock) <= 1
       /\ LeftOnFault = hist.entered
       /\ call.exitLock # 0 => PastLock = {call.exitLock}
       /\ Cardinality({i \in 1 .. Len(hist.exits) :
                          hist.exits[i][2] = "safeExit"}) <= 1
       /\ \A i \in 1 .. Len(hist.exits) :
             hist.exits[i][2] = "safeExit" => hist.exits[i][1] \in PastLock

C19_Step ==
    call.fn = "safeExit"
    => \A t \in 1 .. Len(th) :
          (th[t].pc = "lock" /\ call.exitLock # 0)
             => th'[t].pc = "lock"

\* C19: every thread that leaves its work on a fault or an interrupt has
\* entered safeExit; at most one thread is past the exit lock and exit is
\* called from safeExit at most once, by that thread; a thread that
\* enters safeExit when the lock is taken stays in pthread_mutex_lock.
C19_SingleExit == []C19_State /\ [][C19_Step]_vars

\* a worker has called exit(1) while another worker, the signal thread
\* and main wait for the exit lock
C19_Witness ==
    /\ call.fn = "safeExit" /\ call.exited
    /\ \E t \in ExitWorkers :
          /\ hist.exits = << <<t, "safeExit">> >>
          /\ \E u \in ExitWorkers \ {t} : th[u].pc = "lock"
    /\ th[ExitSignal].pc = "lock"
    /\ th[ExitMain].pc = "lock"

\* ------------------------------------------------ successive generations
\* Two runs of generation -c side by side, one optimized (src, dest) and
\* one thorough (hist.tsrc, hist.tdest), from one first source; the
\* destination of a pass is the source of the next.

\* the sets of up to two members of a set
UpToTwo(S) == {{}} \cup {{x, y} : x \in S, y \in S}

ChainSources ==
    {<<1, S>> : S \in UpToTwo(Combos(1, ChainMax))}
        \cup {<<2, S>> : S \in UpToTwo(Combos(2, ChainMax))}

\* the destination generation -c creates for a source
CreatedDest(s) ==
    sr_alloc(sr_initialize(s.size + 1, 0), s.size + 1 - s.fixedSize,
             s.mval_min, s.mval_max, SubSeq(s.fixedv, 1, s.fixedSize),
             TRUE).base

\* the options of a run with both phases on a destination
ChainOpts(d, thorough) ==
    [threads |-> 1, expandSupers |-> TRUE, expandMutate |-> TRUE,
     expandThorough |-> thorough, minM |-> d.mval_min, maxM |-> d.mval_max]

InitChain ==
    /\ \E g \in ChainSources :
          LET s0 == sr_alloc(sr_initialize(g[1], 0), g[1], 0, ChainMax,
                             << >>, TRUE).base
              s1 == markEach(s0, PassSourceMarks(g[2], FALSE))
          IN  /\ src = s1
              /\ dest = CreatedDest(s1)
              /\ hist = [tsrc |-> s1, tdest |-> CreatedDest(s1),
                         pass |-> 1, skipped |-> FALSE]
              /\ opts = ChainOpts(CreatedDest(s1), FALSE)
    /\ th = Starts(1)
    /\ call = [fn |-> "generations", pc |-> "threads"]
    /\ base = << >>
    /\ ncalls = 0

ChainEnter ==
    /\ call.fn = "generations"
    /\ th[1].pc = "start"
    /\ LET q == queryEnter(src, 0, 1)
       IN  th' = [th EXCEPT ![1] =
                    [pc |-> "scan", i |-> q.i, skip |-> q.skip,
                     total |-> q.total, values |-> q.values,
                     todo |-> << >>]]
    /\ UNCHANGED <<recVars, genVars>>

\* a record after handleExpand() was called for the set at index i of its
\* source, if the byte there has NULLIF
Expanded(s, d, i, values, o) ==
    IF match(s.rec[i + 1], NULLIF, NULLIF)
    THEN markAll(d, handleExpand(values, s.size, s.rec[i + 1], o))
    ELSE d

\* one pass of the loop of query() in both runs, with the marks of
\* handleExpand()
ChainScan ==
    /\ call.fn = "generations"
    /\ th[1].pc = "scan"
    /\ LET w == th[1]
       IN  IF w.i >= w.total
           THEN /\ th' = [th EXCEPT ![1] = [pc |-> "done"]]
                /\ UNCHANGED <<dest, hist>>
           ELSE /\ dest' = Expanded(src, dest, w.i, w.values, opts)
                /\ hist' = [hist EXCEPT
                      !.tdest = Expanded(hist.tsrc, hist.tdest, w.i, w.values,
                                         ChainOpts(dest, TRUE)),
                      !.skipped = @ \/
                          /\ match(src.rec[w.i + 1], MARKED, MARKED)
                          /\ expandRanged(w.values, src.size, opts.minM,
                                 opts.maxM,
                                 BitOr(EXPAND_MUT_ADD, EXPAND_MUT_MUL))
                                # << >>]
                /\ th' = [th EXCEPT ![1] = Advanced(w)]
    /\ UNCHANGED <<base, call, ncalls, src, opts>>

ChainJoin ==
    /\ call.fn = "generations" /\ call.pc = "threads"
    /\ th[1].pc = "done"
    /\ call' = [call EXCEPT !.pc = "joined"]
    /\ UNCHANGED <<base, ncalls, hist, genVars, th>>

\* the next generation: each run takes its destination as the source
ChainNext ==
    /\ call.fn = "generations" /\ call.pc = "joined"
    /\ dest.size < ChainSize
    /\ src' = dest
    /\ dest' = CreatedDest(dest)
    /\ opts' = ChainOpts(CreatedDest(dest), FALSE)
    /\ hist' = [hist EXCEPT !.tsrc = hist.tdest,
                            !.tdest = CreatedDest(hist.tdest),
                            !.pass = @ + 1]
    /\ th' = Starts(1)
    /\ call' = [call EXCEPT !.pc = "threads"]
    /\ UNCHANGED <<base, ncalls>>

NextChain ==
    \/ ChainEnter
    \/ ChainScan
    \/ ChainJoin
    \/ ChainNext

SpecChain == InitChain /\ [][NextChain]_vars

\* -------------------------------------------------------------------- C20
\* C20: from a source without fixed values that covers every M-value up
\* to M and holds no ONLY_SUP, after each of the successive generations
\* with both phases the sets with NULLIF in the destination of the
\* optimized runs are the sets with NULLIF in the destination of the
\* thorough runs.
C20_OptimizedAgrees ==
    (call.fn = "generations" /\ call.pc = "joined")
    => SetsWith(dest, NULLIF) = SetsWith(hist.tdest, NULLIF)

\* a second generation has joined in which the optimized run left out
\* the mutations of a set with ONLY_SUP that has some, and marked some of
\* the sets and not all
C20_Witness ==
    /\ call.fn = "generations" /\ call.pc = "joined"
    /\ hist.pass >= 2
    /\ hist.skipped
    /\ SetsWith(dest, NULLIF) # {}
    /\ SetsWith(dest, NULLIF) # SetsWith(dest, 0)
    /\ SetsWith(dest, NULLIF) = SetsWith(hist.tdest, NULLIF)

\* -------------------------------------------------------------------- C21
\* the marks a worker holds after a step of the loop of query()
MarksHeld(w) == IF w.pc = "expand" THEN Range(w.todo) ELSE {}

\* the step of a worker that read the source byte at its index
ReadsSource(t) ==
    /\ th[t].pc = "scan" /\ th'[t] # th[t]
    /\ th[t].i < th[t].total

\* what C21 says of a worker's read of a source byte: nothing is asked
\* for a set with NULLIF clear; for a set with NULLIF the marks asked are
\* NULLIF | ONLY_SUP on each superset when SUPERSETS is enabled, NULLIF
\* on each mutation when MUTATIONS is enabled and THOROUGH is on or the
\* byte has ONLY_SUP clear, and no other
C21_Read(t) ==
    LET w == th[t]
        cur == src.rec[w.i + 1]
        held == MarksHeld(th'[t])
        sups == Range(expandRanged(w.values, src.size, opts.minM, opts.maxM,
                                   EXPAND_SUPERS))
        muts == Range(expandRanged(w.values, src.size, opts.minM, opts.maxM,
                                   BitOr(EXPAND_MUT_ADD, EXPAND_MUT_MUL)))
        mutating == opts.expandMutate
                       /\ (opts.expandThorough \/ ~HasBit(cur, 1))
    IN  IF ~HasBit(cur, 0)
        THEN held = {} /\ hist'.visits = hist.visits
        ELSE /\ hist'.visits = Append(hist.visits, w.values)
             /\ held = {<<x, BitOr(NULLIF, ONLY_SUP)>> :
                           x \in IF opts.expandSupers THEN sups ELSE {}}
                        \cup {<<x, NULLIF>> :
                                 x \in IF mutating THEN muts ELSE {}}

\* what C21 says of a mark made: the byte of the set takes the bits of
\* the mask
C21_Marks(t) ==
    th[t].pc = "expand" /\ th'[t] # th[t] =>
        LET m == Head(th[t].todo)
        IN  IsAddressable(dest, m[1]) =>
                ByteOf(dest', m[1]) = BitOr(ByteOf(dest, m[1]), m[2])

C21_Step ==
    /\ \A t \in 1 .. Len(th) : ReadsSource(t) => C21_Read(t)
    /\ \A t \in 1 .. Len(th) : C21_Marks(t)
    /\ \A i \in 1 .. Len(dest.rec) :
          HasBit(dest'.rec[i], 1) /\ ~HasBit(dest.rec[i], 1)
              => HasBit(dest'.rec[i], 0)

\* C21: in every step of a generation pass, a source set with NULLIF clear
\* is not expanded, a source set with NULLIF has its supersets marked with
\* NULLIF | ONLY_SUP and its mutations with NULLIF under the conditions of
\* the options and the byte read, and a destination byte that gains
\* ONLY_SUP has NULLIF.
C21_ExpansionMarks == [][C21_Step]_vars

\* a worker holds the superset marks only of a set whose byte has ONLY_SUP
\* in an optimized pass with both phases, after a set without ONLY_SUP had
\* mutations asked and a destination byte gained both bits
C21_Witness ==
    /\ call.fn = "generation" /\ call.pc = "threads"
    /\ opts.expandSupers /\ opts.expandMutate /\ ~opts.expandThorough
    /\ \E t \in 1 .. Len(th) :
          /\ th[t].pc = "expand"
          /\ HasBit(src.rec[th[t].i + 1], 1)
          /\ \A m \in Range(th[t].todo) : m[2] = BitOr(NULLIF, ONLY_SUP)
    /\ \E a \in hist.asked : a[2] = NULLIF
    /\ \E i \in 1 .. Len(dest.rec) :
          dest.rec[i] = BitOr(NULLIF, ONLY_SUP) /\ hist.dest0.rec[i] = 0

\* -------------------------------------------------------------------- C22
\* C22: every set expand() outputs, in any mode, has one value more than
\* the input, is strictly ascending, has values of 1 or more and an M-value
\* of max or less.
C22_ExpandOutputsValid ==
    (call.fn = "expand" /\ call.pc = "returned")
    => \A e \in Range(call.outs) :
          /\ Len(e) = Len(call.set) + 1
          /\ IsAscending(e)
          /\ e[1] >= 1
          /\ e[Len(e)] <= call.max

\* (2, 4, 6) expanded to 8 in the three modes: mutations and supersets
\* were output, and no set with the pair (2, 4) for 6 by a sum or the
\* pair (2, 6) for 4 by a difference, which collide with a value of the
\* input
C22_Witness ==
    /\ call.fn = "expand" /\ call.pc = "returned" /\ call.mode = 7
    /\ call.set = <<2, 4, 6>> /\ call.max = 8
    /\ <<1, 3, 4, 6>> \in Range(call.outs)
    /\ <<2, 4, 6, 7>> \in Range(call.outs)
    /\ \A e \in Range(call.outs) : Len(e) = 4 /\ IsAscending(e)

\* -------------------------------------------------------------------- C23
NoRepeat(outs) ==
    \A i \in DOMAIN outs, j \in DOMAIN outs : i # j => outs[i] # outs[j]

\* C23: in one call of expand(), whatever the mode, no set is handed to
\* the output function more than once.
C23_NoDuplicates ==
    (call.fn = "expand" /\ call.pc = "returned") => NoRepeat(call.outs)

\* C23 for the modes that do not have both EXPAND_SUPERS and
\* EXPAND_MUT_ADD
C23_NoDuplicatesApart ==
    (/\ call.fn = "expand" /\ call.pc = "returned"
     /\ ~(hasMode(call.mode, EXPAND_SUPERS)
            /\ hasMode(call.mode, EXPAND_MUT_ADD)))
    => NoRepeat(call.outs)

\* (3) expanded to 8 with supersets and additive mutations: (3, 6) is
\* output for the difference 6 - 3 and again as a superset
C23_Witness ==
    /\ call.fn = "expand" /\ call.pc = "returned"
    /\ call.set = <<3>> /\ call.max = 8
    /\ call.mode = BitOr(EXPAND_SUPERS, EXPAND_MUT_ADD)
    /\ Cardinality({i \in DOMAIN call.outs : call.outs[i] = <<3, 6>>}) = 2

\* -------------------------------------------------------------------- C24
\* the values two values a < b give by an allowed operator
OpValues(a, b) ==
    {a + b, a * b, b - a} \cup (IF b % a = 0 THEN {b \div a} ELSE {})

\* e is s with its value v replaced by a pair that gives v
Replaces(e, s, v, a, b) ==
    /\ a < b /\ v \in OpValues(a, b)
    /\ Range(e) = (Range(s) \ {v}) \cup {a, b}

\* e is a mutation of s by a pair that does not hold the value replaced
IsProperMutation(e, s) ==
    \E v \in Range(s), a \in Range(e), b \in Range(e) :
        Replaces(e, s, v, a, b) /\ a # v /\ b # v

MutationCall ==
    /\ call.fn = "expand" /\ call.pc = "returned"
    /\ ~hasMode(call.mode, EXPAND_SUPERS)

\* C24: every set expand() outputs in the mutation modes is the input
\* with one value v replaced by a pair (a, b), a op b = v for an allowed
\* operator, a # b, a # v, b # v; none is a superset of the input.
C24_MutationsProper ==
    MutationCall
    => \A e \in Range(call.outs) :
          /\ IsProperMutation(e, call.set)
          /\ ~(Range(call.set) \subseteq Range(e))

\* C24 with the pair (v, 2v) of mutateOpDiff let through: an output is a
\* proper mutation or the input with the double of one of its values
C24_MutationsOrDouble ==
    MutationCall
    => \A e \in Range(call.outs) :
          \/ IsProperMutation(e, call.set)
                /\ ~(Range(call.set) \subseteq Range(e))
          \/ \E v \in Range(call.set) :
                /\ hasMode(call.mode, EXPAND_MUT_ADD)
                /\ Range(e) = Range(call.set) \cup {2 * v}

\* (3) expanded to 8 with additive mutations: (3, 6) is output, a
\* superset of the input, beside the proper mutations (1, 2) and (1, 4)
C24_Witness ==
    /\ call.fn = "expand" /\ call.pc = "returned"
    /\ call.set = <<3>> /\ call.max = 8 /\ call.mode = EXPAND_MUT_ADD
    /\ {<<3, 6>>, <<1, 2>>, <<1, 4>>} \subseteq Range(call.outs)

\* -------------------------------------------------------------------- C25
\* expand() has returned from a call with a strictly ascending set of
\* values of 1 or more whose M-value is above max
AboveRangeCall ==
    /\ call.fn = "expand" /\ call.pc = "returned"
    /\ call.set[1] >= 1 /\ IsAscending(call.set)
    /\ call.set[Len(call.set)] > call.max

\* C25: for a valid input whose M-value is above max, expand() returns
\* success and outputs only sets in which the largest value is replaced by
\* a pair whose sum or product it is, with an M-value of max or less; no
\* superset is among them.
C25_AboveRangeSucceeds ==
    AboveRangeCall
    => /\ call.ret = 0
       /\ \A e \in Range(call.outs) :
             /\ e[Len(e)] <= call.max
             /\ ~(Range(call.set) \subseteq Range(e))
             /\ \E a \in Range(e), b \in Range(e) :
                   /\ a < b
                   /\ call.set[Len(call.set)] \in {a + b, a * b}
                   /\ Range(e) = (Range(call.set)
                                     \ {call.set[Len(call.set)]})
                                  \cup {a, b}

\* what expand() does with such an input: it returns -1 and outputs
\* nothing; on the valid inputs it returns -1 for no other
C25_AboveRangeRejected ==
    (call.fn = "expand" /\ call.pc = "returned")
    => /\ AboveRangeCall => call.ret = -1 /\ call.outs = << >>
       /\ (call.ret = -1 /\ call.set[1] >= 1 /\ IsAscending(call.set))
              => AboveRangeCall

\* (2, 8) was expanded to 7 with the two mutation modes, where (2, 3, 5)
\* and (1, 2, 7) replace 8 by a pair within the range, and expand()
\* returned -1
C25_Witness ==
    /\ AboveRangeCall
    /\ call.set = <<2, 8>> /\ call.max = 7
    /\ call.mode = BitOr(EXPAND_MUT_ADD, EXPAND_MUT_MUL)
    /\ call.ret = -1 /\ call.outs = << >>

\* ------------------------------------------------------ the tester's demo
\* the arrays of the demo program of the tester, and the same values in
\* rising order
LiteralInputs ==
    {<<1, 4, 6, 8>>, <<1, 4, 6, 9>>, <<0>>, <<2>>, <<15, 2, 6>>,
     <<2, 6, 15>>, <<2, 2>>}

\* nulTest is called with an array of the demo or one of the exhaustive
\* test
InitLiteral ==
    /\ \E set \in LiteralInputs \cup NulInputs :
          call = [fn |-> "nulTest", pc |-> "called", set |-> set]
    /\ base = << >> /\ ncalls = 0 /\ hist = << >>
    /\ NoGen /\ NoThreads

NextLiteral == NulTest

SpecLiteral == InitLiteral /\ [][NextLiteral]_vars

\* -------------------------------------------------------------------- C26
\* the verdict of the call that has returned, on a set it was made with
Verdict(set, ret) ==
    (call.fn = "nulTest" /\ call.pc = "returned" /\ call.set = set)
        => call.ret = ret

SpecExitFair ==
    /\ InitExit /\ [][NextExit]_vars
    /\ WF_vars(\E t \in 1 .. Len(th) : PassLock(t))
    /\ WF_vars(\E t \in 1 .. Len(th) : Exit(t))
    /\ WF_vars(\E t \in 1 .. Len(th) : WorkerReturn(t))
    /\ WF_vars(MainReturn)

\* -------------------------------------------------------------------- C27
ExitedThroughSafeExit ==
    /\ call.fn = "safeExit" /\ call.exited
    /\ \E i \in 1 .. Len(hist.exits) : hist.exits[i][2] = "safeExit"

\* C27: once SIGINT was delivered during a pass, to whichever thread, the
\* process ends through safeExit.
C27_InterruptExits == hist.sigint ~> ExitedThroughSafeExit

\* what holds: once SIGINT was delivered the process ends, through
\* safeExit or by the return of main, or the owner of the exit lock waits
\* for the lock it holds
C27_InterruptEnds ==
    hist.sigint ~> (call.exited \/ \E t \in 1 .. Len(th) : th[t].pc = "relock")

\* SIGINT was delivered to the thread that had got the exit lock on a
\* fault, it waits for that lock, and every other thread waits for the lock
\* or, a worker, has returned: no step is left that ends the process
C27_Witness ==
    /\ call.fn = "safeExit" /\ ~call.exited /\ hist.sigint
    /\ \E t \in ExitWorkers :
          /\ th[t].pc = "relock"
          /\ \A u \in (1 .. Len(th)) \ {t} : th[u].pc \in {"lock", "done"}

\* --------------------------------------------------- the end of a utility
\* generation from the creation of its threads to the return of main, with
\* the signal thread and its handlers: what main frees and what the
\* handlers read.  The threads are the workers, then the signal thread,
\* then main, as above.
InitRelease ==
    /\ \E threads \in 1 .. MaxThreads,
          intProg \in BOOLEAN, progUnmarked \in BOOLEAN,
          progExport \in BOOLEAN :
          /\ opts = [threads |-> threads, intProg |-> intProg,
                     progUnmarked |-> progUnmarked,
                     progExport |-> progExport]
          /\ th = [t \in 1 .. threads + 2 |->
                      IF t <= threads THEN [pc |-> "run"]
                      ELSE IF t = threads + 1 THEN [pc |-> "pause"]
                      ELSE [pc |-> "join"]]
    /\ call = [fn |-> "release", progv |-> "live", records |-> "live",
               cancelled |-> FALSE, exited |-> FALSE]
    /\ hist = [late |-> {}]
    /\ src = << >> /\ dest = << >>
    /\ base = << >>
    /\ ncalls = 0

Releasing == call.fn = "release" /\ ~call.exited

\* threadOp() returns
ReleaseWorkerReturn(t) ==
    /\ Releasing
    /\ t \in ExitWorkers
    /\ th[t].pc = "run"
    /\ th' = [th EXCEPT ![t] = [pc |-> "done"]]
    /\ UNCHANGED <<base, call, ncalls, hist, src, dest, opts>>

\* a signal is delivered to the signal thread in pause(): SIGUSR1 runs
\* progHandler(), SIGINT runs intHandler(), which calls progHandler()
\* with -i and safeExit() without
Deliver(signo) ==
    /\ Releasing
    /\ th[ExitSignal].pc = "pause"
    /\ th' = [th EXCEPT ![ExitSignal] =
                IF signo = "SIGINT" /\ ~opts.intProg
                THEN [pc |-> "safeExit", signo |-> signo]
                ELSE [pc |-> "sum", signo |-> signo, i |-> 0]]
    /\ UNCHANGED <<base, call, ncalls, hist, src, dest, opts>>

\* where progHandler() goes after the step at pc
AfterStep(w, pc) ==
    IF pc = "sum" /\ opts.progUnmarked THEN [w EXCEPT !.pc = "query"]
    ELSE IF pc \in {"sum", "query"} THEN [w EXCEPT !.pc = "push"]
    ELSE IF pc = "push" /\ opts.progExport THEN [w EXCEPT !.pc = "export"]
    ELSE IF w.signo = "SIGINT" THEN [pc |-> "safeExit", signo |-> w.signo]
    ELSE [pc |-> "pause"]

\* progHandler(): prog += progv[i]
HandlerSum ==
    /\ Releasing
    /\ th[ExitSignal].pc = "sum"
    /\ LET w == th[ExitSignal]
       IN  IF w.i < opts.threads
           THEN /\ th' = [th EXCEPT ![ExitSignal] = [w EXCEPT !.i = w.i + 1]]
                /\ hist' = [hist EXCEPT !.late =
                              IF call.progv = "freed" THEN @ \cup {"progv"}
                              ELSE @]
           ELSE /\ th' = [th EXCEPT ![ExitSignal] = AfterStep(w, "sum")]
                /\ hist' = hist
    /\ UNCHANGED <<base, call, ncalls, src, dest, opts>>

\* progHandler(): sr_query(dest, ...) with -u, and openExport(dest, ...)
\* with -e
HandlerRecord(pc) ==
    /\ Releasing
    /\ th[ExitSignal].pc = pc
    /\ th' = [th EXCEPT ![ExitSignal] = AfterStep(th[ExitSignal], pc)]
    /\ hist' = [hist EXCEPT !.late =
                   IF call.records = "released" THEN @ \cup {pc} ELSE @]
    /\ UNCHANGED <<base, call, ncalls, src, dest, opts>>

\* progHandler(): pushProg()
HandlerPush ==
    /\ Releasing
    /\ th[ExitSignal].pc = "push"
    /\ th' = [th EXCEPT ![ExitSignal] = AfterStep(th[ExitSignal], "push")]
    /\ UNCHANGED <<base, call, ncalls, hist, src, dest, opts>>

\* intHandler(): safeExit()
HandlerExit ==
    /\ Releasing
    /\ th[ExitSignal].pc = "safeExit"
    /\ call' = [call EXCEPT !.exited = TRUE]
    /\ UNCHANGED <<base, ncalls, hist, src, dest, opts, th>>

\* the cancellation main has asked for takes the signal thread at a
\* cancellation point: pause(), or the file calls of pushProg() and
\* openExport()
Cancelled ==
    /\ Releasing
    /\ call.cancelled
    /\ th[ExitSignal].pc \in {"pause", "push", "export"}
    /\ th' = [th EXCEPT ![ExitSignal] = [pc |-> "cancelled"]]
    /\ UNCHANGED <<base, call, ncalls, hist, src, dest, opts>>

\* main(): the workers are joined and pthread_cancel(handler) is called
MainCancel ==
    /\ Releasing
    /\ th[ExitMain].pc = "join"
    /\ \A t \in ExitWorkers : th[t].pc = "done"
    /\ call' = [call EXCEPT !.cancelled = TRUE]
    /\ th' = [th EXCEPT ![ExitMain] = [pc |-> "free"]]
    /\ UNCHANGED <<base, ncalls, hist, src, dest, opts>>

\* main(): free(progv); progv = NULL
MainFree ==
    /\ Releasing
    /\ th[ExitMain].pc = "free"
    /\ call' = [call EXCEPT !.progv = "freed"]
    /\ th' = [th EXCEPT ![ExitMain] = [pc |-> "export"]]
    /\ UNCHANGED <<base, ncalls, hist, src, dest, opts>>

\* main(): openExport(dest, destFname), then sr_release(src) and
\* sr_release(dest)
MainRelease ==
    /\ Releasing
    /\ th[ExitMain].pc \in {"export", "release"}
    /\ IF th[ExitMain].pc = "export"
       THEN /\ th' = [th EXCEPT ![ExitMain] = [pc |-> "release"]]
            /\ call' = call
       ELSE /\ th' = [th EXCEPT ![ExitMain] = [pc |-> "return"]]
            /\ call' = [call EXCEPT !.records = "released"]
    /\ UNCHANGED <<base, ncalls, hist, src, dest, opts>>

\* main(): return 0
MainEnd ==
    /\ Releasing
    /\ th[ExitMain].pc = "return"
    /\ call' = [call EXCEPT !.exited = TRUE]
    /\ UNCHANGED <<base, ncalls, hist, src, dest, opts, th>>

NextRelease ==
    \/ \E t \in 1 .. Len(th) : ReleaseWorkerReturn(t)
    \/ \E signo \in {"SIGUSR1", "SIGINT"} : Deliver(signo)
    \/ HandlerSum
    \/ \E pc \in {"query", "export"} : HandlerRecord(pc)
    \/ HandlerPush
    \/ HandlerExit
    \/ Cancelled
    \/ MainCancel
    \/ MainFree
    \/ MainRelease
    \/ MainEnd

SpecRelease == InitRelease /\ [][NextRelease]_vars

\* -------------------------------------------------------------------- C28
\* the signal thread is inside progHandler() or intHandler()
InHandler ==
    th[ExitSignal].pc \in {"sum", "query", "push", "export", "safeExit"}

\* C28: once main has freed the progress cells no handler of the signal
\* thread is running, and no handler has read the cells or a record after
\* main freed them.
C28_NoHandlerAfterRelease ==
    call.fn = "release"
    => /\ call.progv = "freed" => ~InHandler
       /\ hist.late = {}

\* what holds: a handler reads after the release only if it was entered
\* before main asked for the cancellation, and none is entered once the
\* signal thread is cancelled
C28_Step ==
    call.fn = "release"
    => /\ (InHandler' /\ ~InHandler) => th[ExitSignal].pc = "pause"
       /\ th[ExitSignal].pc = "cancelled" => th'[ExitSignal].pc = "cancelled"
       /\ call.records = "live" => hist.late \subseteq {"progv"}

C28_HandlerEntered == [][C28_Step]_vars

\* progHandler() was adding up the cells of two workers when main
\* cancelled the signal thread and freed them, and has read a cell since
C28_Witness ==
    /\ call.fn = "release" /\ call.progv = "freed"
    /\ opts.threads >= 2
    /\ th[ExitSignal].pc = "sum" /\ th[ExitSignal].signo = "SIGUSR1"
    /\ "progv" \in hist.late

\* ------------------------------------- the tester on values of full width
\* A value is the tuple of its bytes, the lowest first, as many as its C
\* type has: the conversion of an unsigned long to an unsigned int keeps
\* the first IntBytes of them, and every sum and product keeps the bytes
\* of the type it is computed in.
IntBytes == 4
LongBytes == 8

RECURSIVE ToBytes(_, _)
ToBytes(v, n) ==
    IF n = 0 THEN << >> ELSE <<v % 256>> \o ToBytes(v \div 256, n - 1)

\* the conversion to a type of n bytes
Resize(x, n) ==
    IF Len(x) >= n THEN SubSeq(x, 1, n) ELSE x \o Zeros(n - Len(x))

IsZero(x) == \A i \in 1 .. Len(x) : x[i] = 0

Less(x, y) ==
    \E i \in 1 .. Len(x) :
        x[i] < y[i] /\ \A j \in (i + 1) .. Len(x) : x[j] = y[j]

\* x + y + carry from byte i on, within the bytes of x
RECURSIVE addBytes(_, _, _, _)
addBytes(x, y, i, carry) ==
    IF i > Len(x) THEN << >>
    ELSE LET s == x[i] + y[i] + carry
         IN  <<s % 256>> \o addBytes(x, y, i + 1, s \div 256)

Add(x, y) == addBytes(x, y, 1, 0)

\* x - y - borrow from byte i on, within the bytes of x
RECURSIVE subBytes(_, _, _, _)
subBytes(x, y, i, borrow) ==
    IF i > Len(x) THEN << >>
    ELSE LET d == x[i] - y[i] - borrow
         IN  <<(d + 256) % 256>>
                 \o subBytes(x, y, i + 1, IF d < 0 THEN 1 ELSE 0)

Sub(x, y) == subBytes(x, y, 1, 0)

\* x * d + carry from byte i on, for one byte d, within the bytes of x
RECURSIVE mulByte(_, _, _, _)
mulByte(x, d, i, carry) ==
    IF i > Len(x) THEN << >>
    ELSE LET p == x[i] * d + carry
         IN  <<p % 256>> \o mulByte(x, d, i + 1, p \div 256)

\* x times the bytes of y from i on, within the bytes of x
RECURSIVE mulLoop(_, _, _)
mulLoop(x, y, i) ==
    IF i > Len(y) THEN Zeros(Len(x))
    ELSE Add(Resize(Zeros(i - 1) \o mulByte(x, y[i], 1, 0), Len(x)),
             mulLoop(x, y, i + 1))

Mul(x, y) == mulLoop(x, y, 1)

\* how many times y1 goes into r, below 256: the bits of it from bit down
RECURSIVE digitLoop(_, _, _, _)
digitLoop(r, y1, bit, acc) ==
    IF bit = 0 THEN acc
    ELSE IF Less(r, mulByte(y1, acc + bit, 1, 0))
    THEN digitLoop(r, y1, bit \div 2, acc)
    ELSE digitLoop(r, y1, bit \div 2, acc + bit)

\* the long division of the bytes of x from i down by y # 0, r being
\* what the bytes above i left: <<quotient, remainder>> (r and y1 have
\* one byte more than x)
RECURSIVE divLoop(_, _, _, _)
divLoop(x, y1, i, r) ==
    IF i = 0 THEN <<<< >>, Resize(r, Len(x))>>
    ELSE LET rr == <<x[i]>> \o SubSeq(r, 1, Len(x))
             d == digitLoop(rr, y1, 128, 0)
             h == divLoop(x, y1, i - 1, Sub(rr, mulByte(y1, d, 1, 0)))
         IN  <<Append(h[1], d), h[2]>>

DivMod(x, y) ==
    divLoop(x, Resize(y, Len(x) + 1), Len(x), Zeros(Len(x) + 1))

Quotient(x, y) == DivMod(x, y)[1]

Remainder(x, y) == DivMod(x, y)[2]

\* Return values: 0 nullifiable, 1 innullifiable, 2 when a division by
\* zero was reached, after which the C standard promises nothing.
RECURSIVE recursiveTestWide(_, _, _, _)
RECURSIVE tryReplacementsWide(_, _, _, _, _, _)
RECURSIVE nulPairLoopWide(_, _, _, _, _, _)

\* nulTestTriplet(): the sums and products are unsigned long
nulTestTripletWide(set) ==
    LET a == set[1]
        b == set[2]
        c == set[3]
    IN  IF a = b \/ b = c \/ c = a THEN 0
        ELSE IF Add(a, b) = c THEN 0
        ELSE IF Add(b, c) = a THEN 0
        ELSE IF Add(c, a) = b THEN 0
        ELSE IF Mul(a, b) = c THEN 0
        ELSE IF Mul(b, c) = a THEN 0
        ELSE IF Mul(c, a) = b THEN 0
        ELSE 1

\* recursiveTest(): the replacement values of the pair a, b, which are
\* of ib bytes, in cells of lb bytes; b is not zero
nulReplacementsWide(a, b, lb) ==
    <<Resize(IF Less(b, a) THEN Sub(a, b) ELSE Sub(b, a), lb),
      Resize(Add(a, b), lb),
      Resize(IF IsZero(Remainder(a, b)) THEN Quotient(a, b)
             ELSE IF IsZero(Remainder(b, a)) THEN Quotient(b, a)
             ELSE Zeros(Len(a)), lb),
      Resize(Mul(a, b), lb)>>

tryReplacementsWide(rest, replacements, i, size, ib, lb) ==
    IF i >= 4 THEN 1
    ELSE IF IsZero(replacements[i + 1])
    THEN tryReplacementsWide(rest, replacements, i + 1, size, ib, lb)
    ELSE LET res == recursiveTestWide(<<replacements[i + 1]>> \o rest,
                                      size - 1, ib, lb)
         IN  IF res # 1 THEN res
             ELSE tryReplacementsWide(rest, replacements, i + 1, size,
                                      ib, lb)

\* recursiveTest(): the loop over the pairs; a and b are the pair's values
\* converted to a type of ib bytes, and a % b comes first
nulPairLoopWide(set, size, pairA, pairB, ib, lb) ==
    IF pairA >= size THEN 1
    ELSE IF pairB >= size
    THEN nulPairLoopWide(set, size, pairA + 1, pairA + 2, ib, lb)
    ELSE LET a == Resize(set[pairA + 1], ib)
             b == Resize(set[pairB + 1], ib)
         IN  IF IsZero(b) THEN 2
             ELSE LET res == tryReplacementsWide(
                                 othersLoop(set, size, pairA, pairB, 0),
                                 nulReplacementsWide(a, b, lb),
                                 0, size, ib, lb)
                  IN  IF res # 1 THEN res
                      ELSE nulPairLoopWide(set, size, pairA, pairB + 1,
                                           ib, lb)

recursiveTestWide(set, size, ib, lb) ==
    IF size = 3 THEN nulTestTripletWide(set)
    ELSE IF nulEqualScan(set, size) THEN 0
    ELSE nulPairLoopWide(set, size, 0, 1, ib, lb)

\* nulTest() on values of lb bytes, the pair's values being taken in a
\* type of ib bytes
nulTestWide(set, size, ib, lb) ==
    IF size = 0 THEN 1
    ELSE IF size = 1 THEN (IF ~IsZero(set[1]) THEN 1 ELSE 0)
    ELSE IF size = 2 THEN (IF set[1] # set[2] THEN 1 ELSE 0)
    ELSE IF \E i \in 1 .. size : IsZero(set[i]) THEN 0
    ELSE recursiveTestWide(set, size, ib, lb)

\* A value of the call is written <<low, high>>, for high * 2^32 + low.
WideSmall == 6
WideLow == 3

\* the bytes of the values of a call, in a type of n bytes
RECURSIVE BytesOf(_, _)
BytesOf(set, n) ==
    IF set = << >> THEN << >>
    ELSE <<Resize(ToBytes(Head(set)[1], IntBytes)
                      \o ToBytes(Head(set)[2], IntBytes), n)>>
             \o BytesOf(Tail(set), n)

\* the values of c with no high part
RECURSIVE Low(_)
Low(c) == IF c = << >> THEN << >> ELSE <<<<Head(c), 0>>>> \o Low(Tail(c))

\* four small values, or three and one just above 2^32
WideInputs ==
    {Low(c) : c \in Combos(4, WideSmall)}
        \cup {Append(Low(c), <<k, 1>>) :
                 c \in Combos(3, WideSmall), k \in 0 .. WideLow}

InitWide ==
    /\ \E set \in WideInputs :
          call = [fn |-> "nulTest", pc |-> "called", set |-> set]
    /\ base = << >> /\ ncalls = 0 /\ hist = << >>
    /\ NoGen /\ NoThreads

\* nulTest() as it is built: unsigned int of IntBytes, unsigned long of
\* LongBytes; after a division by zero any verdict, or the end of the
\* process by SIGFPE with none (written 2)
NulTestWide ==
    /\ call.fn = "nulTest" /\ call.pc = "called"
    /\ LET r == nulTestWide(BytesOf(call.set, LongBytes), Len(call.set),
                            IntBytes, LongBytes)
       IN  \E out \in IF r = 2
                      THEN {<<"returned", 0>>, <<"returned", 1>>,
                            <<"SIGFPE", 2>>}
                      ELSE {<<"returned", r>>} :
              call' = [fn |-> "nulTest", pc |-> out[1],
                       set |-> call.set, ret |-> out[2]]
    /\ UNCHANGED <<base, ncalls, hist, genVars, th>>

NextWide == NulTestWide

SpecWide == InitWide /\ [][NextWide]_vars

\* -------------------------------------------------------------------- C29
\* the verdict on the values with nothing cut off: the pair's values
\* taken as they are, in LongBytes, which no sum or product of values
\* below 2^34 and three below 2^8 fills
ExactVerdict(set) ==
    nulTestWide(BytesOf(set, LongBytes), Len(set), LongBytes, LongBytes)

\* C29: the tester computes every replacement value exactly, with no
\* truncation of operands and no wrap-around, so for every input of
\* unsigned long values, those above 32 bits included, its verdict is the
\* verdict of unbounded integer arithmetic.
C29_ExactArithmetic ==
    (call.fn = "nulTest" /\ call.pc = "returned") =>
        call.ret = ExactVerdict(call.set)

\* on values below 2^32 whose sums and products stay below it, it is
C29_ExactBelow ==
    (/\ call.fn = "nulTest" /\ call.pc = "returned"
     /\ \A i \in 1 .. Len(call.set) : call.set[i][2] = 0) =>
        call.ret = ExactVerdict(call.set)

\* (3, 5, 6, 2^32 + 3): the last value is taken for 3 and the set for
\* nullifiable, which with nothing cut off it is not
C29_Witness ==
    /\ call.fn = "nulTest" /\ call.pc = "returned"
    /\ call.set = <<<<3, 0>>, <<5, 0>>, <<6, 0>>, <<3, 1>>>>
    /\ call.ret = 0
    /\ ExactVerdict(call.set) = 1

\* ------------------------------------------------ the progress of a scan
\* The workers of generation (threadOp) each run sr_query_parallel() on
\* the source with a cell of progv, and progHandler() adds the cells up.
\* Only the positions count here: call.total is TOTAL of the source,
\* th[w] is worker w in query(), hist.progv the cells, which are size_t
\* and kept as bytes, and hist.handler the signal thread.
PERIOD == 4096
SizeBytes == 8

ProgTotal == 3
ProgWorkers == 3
MaxSignals == 1

SizeT(n) == ToBytes(n, SizeBytes)

\* the totals and thread counts of a run; one worker goes past PERIOD
ProgRuns ==
    ((0 .. ProgTotal) \X (1 .. ProgWorkers))
        \cup {<<PERIOD + ProgTotal, 1>>}

InitProg ==
    /\ \E run \in ProgRuns :
          /\ call = [fn |-> "progress", total |-> run[1],
                     threads |-> run[2]]
          /\ th = [w \in 0 .. (run[2] - 1) |->
                      [pc |-> "loop", i |-> w, visited |-> 0]]
          /\ hist = [progv |-> [w \in 0 .. (run[2] - 1) |-> SizeT(0)],
                     handler |-> [pc |-> "pause", i |-> 0,
                                  prog |-> SizeT(0)],
                     pushed |-> << >>, signals |-> 0]
    /\ base = << >> /\ ncalls = 0
    /\ NoGen

\* query(): one turn of the loop at index i, with skip = threads
ProgVisit(w) ==
    /\ call.fn = "progress"
    /\ th[w].pc = "loop" /\ th[w].i < call.total
    /\ LET skip == call.threads
           i == th[w].i
       IN  /\ th' = [th EXCEPT ![w].i = i + skip, ![w].visited = @ + 1]
           /\ hist' = IF (i \div skip) % PERIOD = 0
                      THEN [hist EXCEPT !.progv[w] = SizeT(i \div skip)]
                      ELSE hist
    /\ UNCHANGED <<base, call, ncalls, genVars>>

\* query(): (total - offset - 1) / skip + 1 in size_t
finalProgress(total, offset, skip) ==
    Add(Quotient(Sub(Sub(SizeT(total), SizeT(offset)), SizeT(1)),
                 SizeT(skip)),
        SizeT(1))

\* query(): the loop is over; the final progress update and the return
ProgReturn(w) ==
    /\ call.fn = "progress"
    /\ th[w].pc = "loop" /\ th[w].i >= call.total
    /\ th' = [th EXCEPT ![w].pc = "returned"]
    /\ hist' = [hist EXCEPT !.progv[w] =
                   finalProgress(call.total, w, call.threads)]
    /\ UNCHANGED <<base, call, ncalls, genVars>>

\* SIGUSR1 reaches the signal thread in pause(): progHandler() begins
ProgSignal ==
    /\ call.fn = "progress"
    /\ hist.handler.pc = "pause" /\ hist.signals < MaxSignals
    /\ hist' = [hist EXCEPT !.handler = [pc |-> "sum", i |-> 0,
                                         prog |-> SizeT(0)],
                            !.signals = @ + 1]
    /\ UNCHANGED <<base, call, ncalls, genVars, th>>

\* progHandler(): prog += progv[i]
ProgAdd ==
    /\ call.fn = "progress"
    /\ hist.handler.pc = "sum" /\ hist.handler.i < call.threads
    /\ hist' = [hist EXCEPT
                   !.handler.prog = Add(@, hist.progv[hist.handler.i]),
                   !.handler.i = @ + 1]
    /\ UNCHANGED <<base, call, ncalls, genVars, th>>

\* progHandler(): pushProg(prog, srcTotal, ...)
ProgPush ==
    /\ call.fn = "progress"
    /\ hist.handler.pc = "sum" /\ hist.handler.i = call.threads
    /\ hist' = [hist EXCEPT !.handler.pc = "pause",
                            !.pushed = <<hist.handler.prog>>]
    /\ UNCHANGED <<base, call, ncalls, genVars, th>>

NextProg ==
    \/ \E w \in DOMAIN th : ProgVisit(w)
    \/ \E w \in DOMAIN th : ProgReturn(w)
    \/ ProgSignal
    \/ ProgAdd
    \/ ProgPush

SpecProg == InitProg /\ [][NextProg]_vars

\* -------------------------------------------------------------------- C30
\* the indices below total that the worker with this offset visits
Visits(total, offset, skip) ==
    Cardinality({i \in 0 .. (total - 1) : i % skip = offset})

\* the sum of the cells from worker w on, with a byte more than a cell
RECURSIVE CellsFrom(_)
CellsFrom(w) ==
    IF w >= call.threads THEN Zeros(SizeBytes + 1)
    ELSE Add(Resize(hist.progv[w], SizeBytes + 1), CellsFrom(w + 1))

Accounted ==
    LET T == call.total
        W == call.threads
        sum == CellsFrom(0)
        whole == Resize(SizeT(T), SizeBytes + 1)
    IN  /\ \A w \in 0 .. (W - 1) :
              /\ ~Less(SizeT(Visits(T, w, W)), hist.progv[w])
              /\ th[w].pc = "returned" =>
                    /\ th[w].visited = Visits(T, w, W)
                    /\ hist.progv[w] = SizeT(th[w].visited)
        /\ ~Less(whole, sum)
        /\ (\A w \in 0 .. (W - 1) : th[w].pc = "returned") => sum = whole

\* C30: during a scan each worker's progress cell never exceeds the
\* number of indices that worker will visit, and when sr_query_parallel
\* (stride W, offset w) returns the cell equals the number of indices the
\* call visited, so the sum of the W cells is at most T at every moment
\* and equals T after all workers return; for every W >= 1 and T >= 0,
\* W > T and T = 0 included.
C30_ProgressAccounting == call.fn = "progress" => Accounted

\* with no more workers than indices it does, and what is pushed is no
\* more than the total
C30_AccountingWithin ==
    (call.fn = "progress" /\ call.threads <= call.total) =>
        /\ Accounted
        /\ hist.pushed # << >> =>
              ~Less(SizeT(call.total), hist.pushed[1])

\* two workers on one index: the second visits nothing and returns with
\* 2^63 in its cell
C30_Witness ==
    /\ call.fn = "progress" /\ call.total = 1 /\ call.threads = 2
    /\ th[1].pc = "returned" /\ th[1].visited = 0
    /\ hist.progv[1] = <<0, 0, 0, 0, 0, 0, 0, 128>>

=============================================================================
